---- MODULE Spec2Model ----
(***************************************************************************)
(* Model of the OpenSandbox lifecycle core: the Kubernetes workload        *)
(* providers (BatchSandbox / agent-sandbox), the egress composer, the       *)
(* request validators and the direct-daemon (Docker) lifecycle engine.      *)
(*                                                                          *)
(* Strings whose characters matter (sandbox ids, resource names, label      *)
(* keys) are sequences of one-character strings.                            *)
(***************************************************************************)
EXTENDS Integers, Sequences, FiniteSets, TLC

VARIABLES
    template,   \* the template the provider was constructed with, or None
    store,      \* cluster API: resource name -> stored custom resource
    last,       \* record of the provider call that ran last
    prev,       \* the id deleted by the call before it, if it was a delete
    rpc,        \* race: position of each of the two concurrent calls
    rgot,       \* race: the resource name each call resolved
    rres,       \* race: the result each call returned
    rin,        \* race: the inputs (id, new expiration, store at the start)
    config,     \* docker service: its configuration
    daemon,     \* docker daemon: sandbox id -> the sandbox's container
    pending_sandboxes,  \* docker service: sandbox id -> pending record
    cleanups,   \* sandbox id -> number of cleanups of failed containers
    wpc,        \* sandbox id -> position of its async provisioning worker
    dlast,      \* record of the docker service call or worker step run last
    sidecars,   \* docker daemon: the sandbox ids an egress sidecar is labelled for
    expirations, \* docker service: the sandbox ids in its expiration index
    fin,        \* the function applied and its arguments
    fout,       \* what the application returned, or NotApplied
    registry,   \* provider factory: _PROVIDER_REGISTRY, its items in insertion order
    rcall       \* record of the provider factory call that ran last

provVars == <<store, last, prev>>
raceVars == <<rpc, rgot, rres, rin>>
k8sVars == <<template, store, last, prev, rpc, rgot, rres, rin>>
dockerVars == <<config, daemon, pending_sandboxes, cleanups, wpc, dlast>>
restoreVars == <<sidecars, expirations>>
fnVars == <<fin, fout>>
registryVars == <<registry, rcall>>
vars == <<template, store, last, prev, rpc, rgot, rres, rin,
          config, daemon, pending_sandboxes, cleanups, wpc, dlast,
          sidecars, expirations, fin, fout, registry, rcall>>

----------------------------------------------------------------------------
(* Bounds *)

\* expiration instants are 1..MaxTime
MaxTime == 2

\* the docker service generates the sandbox ids 1..MaxSandboxes
MaxSandboxes == 2

----------------------------------------------------------------------------
(* Strings *)

StartsWith(s, p) ==
    /\ Len(s) >= Len(p)
    /\ SubSeq(s, 1, Len(p)) = p

\* "sandbox-"
SandboxPrefix == <<"s", "a", "n", "d", "b", "o", "x", "-">>

\* WorkloadProvider.legacy_resource_name
legacy_resource_name(sandbox_id) ==
    IF StartsWith(sandbox_id, SandboxPrefix)
    THEN sandbox_id
    ELSE SandboxPrefix \o sandbox_id

\* the sandbox ids the calls are made with: "a", "b" and "sandbox-a"
Ids == {<<"a">>, <<"b">>, SandboxPrefix \o <<"a">>}

Times == 1..MaxTime

NoName == <<>>

----------------------------------------------------------------------------
(* Python values.  A value is a record [t, v]: t names the type, v holds the  *)
(* content.  Dicts are functions from keys to values, lists are sequences,    *)
(* "str" holds an atomic string, "text" a string as its characters, "obj" a   *)
(* class instance by its attributes.                                           *)

D(f) == [t |-> "dict", v |-> f]
L(s) == [t |-> "list", v |-> s]
S(s) == [t |-> "str", v |-> s]
Text(s) == [t |-> "text", v |-> s]
I(n) == [t |-> "int", v |-> n]
O(f) == [t |-> "obj", v |-> f]
None == [t |-> "none", v |-> 0]

EmptyDict == D(<<>>)

\* bool(x)
Truthy(x) ==
    CASE x.t = "none" -> FALSE
      [] x.t = "dict" -> DOMAIN x.v # {}
      [] x.t = "list" -> Len(x.v) > 0
      [] x.t = "text" -> Len(x.v) > 0
      [] x.t = "str" -> x.v # ""
      [] x.t = "int" -> x.v # 0
      [] OTHER -> TRUE

\* k in d
Has(d, k) == k \in DOMAIN d.v

\* d.get(k, default)
GetOr(d, k, default) == IF Has(d, k) THEN d.v[k] ELSE default

\* d[k] = x
Put(d, k, x) == D((k :> x) @@ d.v)

----------------------------------------------------------------------------
(* egress_helper.py                                                           *)

EGRESS_RULES_ENV == "OPENSANDBOX_EGRESS_RULES"

\* json.dumps(network_policy.model_dump(by_alias=True, exclude_none=True)):
\* the policy's fields that are set, under their wire names
policy_payload(network_policy) ==
    [t |-> "json",
     v |-> [k \in {f \in DOMAIN network_policy.v :
                       network_policy.v[f].t # "none"} |-> network_policy.v[k]]]

build_security_context_for_egress ==
    D([capabilities |-> D([add |-> L(<<S("NET_ADMIN")>>)])])

build_egress_sidecar_container(egress_image, network_policy) ==
    D([name |-> S("egress"),
       image |-> egress_image,
       env |-> L(<<D([name |-> S(EGRESS_RULES_ENV),
                      value |-> policy_payload(network_policy)])>>),
       securityContext |-> build_security_context_for_egress])

\* a security context for the main container that never drops a capability
build_security_context_for_sandbox_container_NoDrop(has_network_policy) ==
    EmptyDict

build_security_context_for_sandbox_container(has_network_policy) ==
    IF ~has_network_policy
    THEN EmptyDict
    ELSE D([capabilities |-> D([drop |-> L(<<S("NET_ADMIN")>>)])])

build_ipv6_disable_sysctls ==
    <<D([name |-> S("net.ipv6.conf.all.disable_ipv6"), value |-> S("1")]),
      D([name |-> S("net.ipv6.conf.default.disable_ipv6"), value |-> S("1")]),
      D([name |-> S("net.ipv6.conf.lo.disable_ipv6"), value |-> S("1")])>>

\* sysctls_dict[sysctl["name"]] = sysctl.get("value", "") on an insertion-
\* ordered dict, kept as a tuple of {name, value} entries
SysctlAssign(acc, sysctl) ==
    IF sysctl.t = "dict" /\ Has(sysctl, "name")
    THEN LET entry == D([name |-> sysctl.v["name"],
                         value |-> GetOr(sysctl, "value", S(""))])
             at == {i \in 1..Len(acc) : acc[i].v["name"] = sysctl.v["name"]}
         IN  IF at = {} THEN Append(acc, entry)
             ELSE [i \in 1..Len(acc) |-> IF i \in at THEN entry ELSE acc[i]]
    ELSE acc

RECURSIVE SysctlAssignAll(_, _)
SysctlAssignAll(acc, sysctls) ==
    IF sysctls = <<>> THEN acc
    ELSE SysctlAssignAll(SysctlAssign(acc, Head(sysctls)), Tail(sysctls))

\* a merge that appends the new sysctls to the existing ones
merge_sysctls_Append(existing_sysctls, new_sysctls) ==
    IF ~Truthy(existing_sysctls)
    THEN L(new_sysctls)
    ELSE L(existing_sysctls.v \o new_sysctls)

\* _merge_sysctls(existing_sysctls, new_sysctls): the merged list
merge_sysctls(existing_sysctls, new_sysctls) ==
    IF ~Truthy(existing_sysctls)
    THEN L(new_sysctls)
    ELSE L(SysctlAssignAll(SysctlAssignAll(<<>>, existing_sysctls.v),
                           new_sysctls))

\* apply_egress_to_spec mutates pod_spec and containers in place: the result
\* is the pair after the call
apply_egress_to_spec(pod_spec, containers, network_policy, egress_image) ==
    IF ~Truthy(network_policy) \/ ~Truthy(egress_image)
    THEN [pod_spec |-> pod_spec, containers |-> containers]
    ELSE LET sidecar_container ==
                 build_egress_sidecar_container(egress_image, network_policy)
             with_ctx == IF Has(pod_spec, "securityContext")
                         THEN pod_spec
                         ELSE Put(pod_spec, "securityContext", EmptyDict)
             ctx == with_ctx.v["securityContext"]
             existing_sysctls == GetOr(ctx, "sysctls", None)
             merged == merge_sysctls(existing_sysctls,
                                     build_ipv6_disable_sysctls)
         IN  [pod_spec |-> Put(with_ctx, "securityContext",
                               Put(ctx, "sysctls", merged)),
              containers |-> L(Append(containers.v, sidecar_container))]

\* build_security_context_from_dict: a V1SecurityContext or None
build_security_context_from_dict(security_context_dict) ==
    IF ~Truthy(security_context_dict)
    THEN None
    ELSE O([capabilities |->
               IF Has(security_context_dict, "capabilities")
               THEN LET caps_dict == security_context_dict.v["capabilities"]
                        add_caps == GetOr(caps_dict, "add", L(<<>>))
                        drop_caps == GetOr(caps_dict, "drop", L(<<>>))
                    IN  O([add |-> IF Truthy(add_caps) THEN add_caps ELSE None,
                           drop |-> IF Truthy(drop_caps) THEN drop_caps
                                    ELSE None])
               ELSE None])

\* serialize_security_context_to_dict: a dict or None
serialize_security_context_to_dict(security_context) ==
    IF ~Truthy(security_context)
    THEN None
    ELSE LET capabilities == security_context.v["capabilities"]
             caps == IF Truthy(capabilities)
                     THEN D([k \in {f \in {"add", "drop"} :
                                       Truthy(capabilities.v[f])}
                                |-> capabilities.v[k]])
                     ELSE EmptyDict
             result == IF Truthy(caps) THEN D([capabilities |-> caps])
                       ELSE EmptyDict
         IN  IF Truthy(result) THEN result ELSE None

----------------------------------------------------------------------------
(* batchsandbox_template.py: BatchSandboxTemplateManager.  template is the   *)
(* loaded YAML object, None when no template file is configured.              *)

\* get_base_template
get_base_template(tmpl) ==
    IF Truthy(tmpl) THEN tmpl ELSE EmptyDict

\* a merge that replaces a mapping of the base by the override's wholesale
deep_merge_Shallow(base, override) ==
    LET given == {k \in DOMAIN override.v : override.v[k].t # "none"}
    IN  D([k \in DOMAIN base.v \cup given |->
              IF k \notin given THEN base.v[k] ELSE override.v[k]])

\* _deep_merge(base, override)
RECURSIVE deep_merge(_, _)
deep_merge(base, override) ==
    LET given == {k \in DOMAIN override.v : override.v[k].t # "none"}
    IN  D([k \in DOMAIN base.v \cup given |->
              IF k \notin given THEN base.v[k]
              ELSE IF k \notin DOMAIN base.v THEN override.v[k]
              ELSE IF base.v[k].t = "dict" /\ override.v[k].t = "dict"
              THEN deep_merge(base.v[k], override.v[k])
              ELSE override.v[k]])

\* merge_with_runtime_values
merge_with_runtime_values(tmpl, runtime_manifest) ==
    LET base == get_base_template(tmpl)
    IN  IF ~Truthy(base) THEN runtime_manifest
        ELSE deep_merge(base, runtime_manifest)

----------------------------------------------------------------------------
(* batchsandbox_provider.py: the manifest create_workload submits             *)

\* "/opt/opensandbox/bin/bootstrap.sh"
BootstrapPath ==
    <<"/", "o", "p", "t", "/", "o", "p", "e", "n", "s", "a", "n", "d",
    "b", "o", "x", "/", "b", "i", "n", "/", "b", "o", "o", "t", "s", "t",
    "r", "a", "p", ".", "s", "h">>

Lower == {"a", "b", "c", "d", "e", "f", "g", "h", "i", "j", "k", "l", "m",
          "n", "o", "p", "q", "r", "s", "t", "u", "v", "w", "x", "y", "z"}
Upper == {"A", "B", "C", "D", "E", "F", "G", "H", "I", "J", "K", "L", "M",
          "N", "O", "P", "Q", "R", "S", "T", "U", "V", "W", "X", "Y", "Z"}
Digit == {"0", "1", "2", "3", "4", "5", "6", "7", "8", "9"}

\* the characters shlex.quote leaves alone: [\w@%+=:,./-]
ShellSafe == Lower \cup Upper \cup Digit
                 \cup {"_", "@", "%", "+", "=", ":", ",", ".", "/", "-"}

\* s.replace("'", "'\"'\"'")
RECURSIVE EscapeQuotes(_)
EscapeQuotes(s) ==
    IF s = <<>> THEN <<>>
    ELSE (IF Head(s) = "'" THEN <<"'", "\"", "'", "\"", "'">> ELSE <<Head(s)>>)
             \o EscapeQuotes(Tail(s))

\* shlex.quote
shlex_quote(s) ==
    IF s = <<>> THEN <<"'", "'">>
    ELSE IF \A i \in 1..Len(s) : s[i] \in ShellSafe THEN s
    ELSE <<"'">> \o EscapeQuotes(s) \o <<"'">>

\* ' '.join(shlex.quote(arg) for arg in entrypoint)
RECURSIVE JoinQuoted(_)
JoinQuoted(entrypoint) ==
    IF entrypoint = <<>> THEN <<>>
    ELSE IF Len(entrypoint) = 1 THEN shlex_quote(Head(entrypoint))
    ELSE shlex_quote(Head(entrypoint)) \o <<" ">> \o JoinQuoted(Tail(entrypoint))

\* a datetime: its wall-clock reading, in hours of 2025-01-01, and its
\* tzinfo: None (naive) or the zone's offset from UTC in hours
datetime(wall, tzinfo) == [wall |-> wall, tzinfo |-> tzinfo]

DigitChars == <<"0", "1", "2", "3", "4", "5", "6", "7", "8", "9">>

\* "%02d" % n
TwoDigits(n) == <<DigitChars[(n \div 10) + 1], DigitChars[(n % 10) + 1]>>

\* "2025-01-01T"
DatePrefix == <<"2", "0", "2", "5", "-", "0", "1", "-", "0", "1", "T">>

\* datetime.isoformat(): "2025-01-01THH:00:00", followed by "+HH:00" or
\* "-HH:00" when the datetime is aware
datetime_isoformat(dt) ==
    DatePrefix \o TwoDigits(dt.wall) \o <<":", "0", "0", ":", "0", "0">>
        \o (IF dt.tzinfo.t = "none" THEN <<>>
            ELSE (IF dt.tzinfo.v < 0 THEN <<"-">> \o TwoDigits(0 - dt.tzinfo.v)
                  ELSE <<"+">> \o TwoDigits(dt.tzinfo.v))
                     \o <<":", "0", "0">>)

\* expires_at.isoformat(); the provider is handed UTC datetimes, expires_at
\* is the hour of one
isoformat(expires_at) == Text(datetime_isoformat(datetime(expires_at, I(0))))


EnvEntry(e) == D([name |-> S(e.name), value |-> S(e.value)])

\* ' '.join(entrypoint): the arguments joined as they are
RECURSIVE JoinPlain(_)
JoinPlain(entrypoint) ==
    IF entrypoint = <<>> THEN <<>>
    ELSE IF Len(entrypoint) = 1 THEN Head(entrypoint)
    ELSE Head(entrypoint) \o <<" ">> \o JoinPlain(Tail(entrypoint))

\* a task template whose command embeds the arguments without quoting
build_task_template_Unquoted(entrypoint, env) ==
    LET user_process_cmd ==
            BootstrapPath \o <<" ">> \o JoinPlain(entrypoint) \o <<" ", "&">>
        wrapped_command == L(<<S("/bin/sh"), S("-c"), Text(user_process_cmd)>>)
        env_list == L([i \in 1..Len(env) |-> EnvEntry(env[i])])
    IN  D([spec |-> D([process |-> D([command |-> wrapped_command,
                                      env |-> env_list])])])

\* _build_task_template
build_task_template(entrypoint, env) ==
    LET escaped_entrypoint == JoinQuoted(entrypoint)
        user_process_cmd ==
            BootstrapPath \o <<" ">> \o escaped_entrypoint \o <<" ", "&">>
        wrapped_command == L(<<S("/bin/sh"), S("-c"), Text(user_process_cmd)>>)
        env_list == L([i \in 1..Len(env) |-> EnvEntry(env[i])])
    IN  D([spec |-> D([process |-> D([command |-> wrapped_command,
                                      env |-> env_list])])])

V1VolumeMount(name, mount_path) ==
    O([name |-> S(name), mount_path |-> S(mount_path)])

V1Container(name, image, command, args, env, resources, volume_mounts, security_context) ==
    O([name |-> name, image |-> image, command |-> command, args |-> args,
       env |-> env, resources |-> resources, volume_mounts |-> volume_mounts,
       security_context |-> security_context])

\* _build_execd_init_container
build_execd_init_container(execd_image) ==
    V1Container(S("execd-installer"), execd_image,
                L(<<S("/bin/sh"), S("-c")>>),
                L(<<S("cp ./execd /opt/opensandbox/bin/execd && cp ./bootstrap.sh /opt/opensandbox/bin/bootstrap.sh && chmod +x /opt/opensandbox/bin/execd && chmod +x /opt/opensandbox/bin/bootstrap.sh")>>),
                None, None,
                L(<<V1VolumeMount("opensandbox-bin", "/opt/opensandbox/bin")>>),
                None)

V1EnvVar(e) == O([name |-> S(e.name), value |-> S(e.value)])

\* _build_main_container
build_main_container(image_uri, entrypoint, env, resource_limits, has_network_policy) ==
    LET env_vars ==
            L(Append([i \in 1..Len(env) |-> V1EnvVar(env[i])],
                     V1EnvVar([name |-> "EXECD",
                               value |-> "/opt/opensandbox/bin/execd"])))
        resources ==
            IF Truthy(resource_limits)
            THEN O([limits |-> resource_limits, requests |-> resource_limits])
            ELSE None
        wrapped_command ==
            L(<<Text(BootstrapPath)>> \o [i \in 1..Len(entrypoint) |-> Text(entrypoint[i])])
        security_context ==
            IF has_network_policy
            THEN build_security_context_from_dict(
                     build_security_context_for_sandbox_container(TRUE))
            ELSE None
    IN  V1Container(S("sandbox"), image_uri, wrapped_command, None,
                    IF Truthy(env_vars) THEN env_vars ELSE None, resources,
                    L(<<V1VolumeMount("opensandbox-bin",
                                      "/opt/opensandbox/bin")>>),
                    security_context)

EnvVarDict(e) == D([name |-> e.v["name"], value |-> e.v["value"]])

MountDict(vm) == D([name |-> vm.v["name"], mountPath |-> vm.v["mount_path"]])

\* the "resources" entry of _container_to_dict
ResourcesDict(resources) ==
    D([k \in {f \in {"limits", "requests"} : Truthy(resources.v[f])}
          |-> resources.v[k]])

\* _container_to_dict
container_to_dict(container) ==
    LET c == container.v
        security_context_dict ==
            IF Truthy(c["security_context"])
            THEN serialize_security_context_to_dict(c["security_context"])
            ELSE None
        keys == {"name", "image"}
                    \cup (IF Truthy(c["command"]) THEN {"command"} ELSE {})
                    \cup (IF Truthy(c["args"]) THEN {"args"} ELSE {})
                    \cup (IF Truthy(c["env"]) THEN {"env"} ELSE {})
                    \cup (IF Truthy(c["resources"]) THEN {"resources"} ELSE {})
                    \cup (IF Truthy(c["volume_mounts"])
                          THEN {"volumeMounts"} ELSE {})
                    \cup (IF Truthy(security_context_dict)
                          THEN {"securityContext"} ELSE {})
    IN  D([k \in keys |->
              CASE k = "name" -> c["name"]
                [] k = "image" -> c["image"]
                [] k = "command" -> c["command"]
                [] k = "args" -> c["args"]
                [] k = "env" -> L([i \in 1..Len(c["env"].v) |-> EnvVarDict(c["env"].v[i])])
                [] k = "resources" -> ResourcesDict(c["resources"])
                [] k = "volumeMounts" -> L([i \in 1..Len(c["volume_mounts"].v) |-> MountDict(c["volume_mounts"].v[i])])
                [] OTHER -> security_context_dict])

\* x.get("name") of the dict entries of a list (None for an entry without)
NamesIn(list) ==
    {GetOr(list[i], "name", None) : i \in {j \in 1..Len(list) : list[j].t = "dict"}}

\* the merge loops of _merge_pod_spec_extras: append each extra whose name is
\* set and not yet present
RECURSIVE AppendMissing(_, _)
AppendMissing(list, extras) ==
    IF extras = <<>> THEN list
    ELSE LET x == Head(extras)
             name == IF x.t = "dict" THEN GetOr(x, "name", None) ELSE None
         IN  IF x.t # "dict" \/ ~Truthy(name) \/ name \in NamesIn(list)
             THEN AppendMissing(list, Tail(extras))
             ELSE AppendMissing(Append(list, x), Tail(extras))

\* x.get(k, []) or []
ListOr(x, k) ==
    LET got == GetOr(x, k, L(<<>>))
    IN  IF Truthy(got) THEN got ELSE L(<<>>)

\* _extract_template_pod_extras: [volumes, mounts], both tuples
extract_template_pod_extras(tmpl) ==
    LET base == get_base_template(tmpl)
        spec == GetOr(base, "spec", EmptyDict)
        template_spec == GetOr(GetOr(spec, "template", EmptyDict), "spec",
                               EmptyDict)
        extra_volumes == ListOr(template_spec, "volumes")
        containers == ListOr(template_spec, "containers").v
        named == {i \in 1..Len(containers) :
                      GetOr(containers[i], "name", None) = S("sandbox")}
        target == IF named # {}
                  THEN containers[CHOOSE i \in named : \A j \in named : i <= j]
                  ELSE containers[1]
        extra_mounts == IF containers # <<>> THEN ListOr(target, "volumeMounts")
                        ELSE L(<<>>)
    IN  [volumes |-> IF extra_volumes.t = "list" THEN extra_volumes.v ELSE <<>>,
         mounts |-> IF extra_mounts.t = "list" THEN extra_mounts.v ELSE <<>>]

\* a merge that appends every template entry, whatever its name
merge_pod_spec_extras_AppendAll(batchsandbox, extra_volumes, extra_mounts) ==
    LET spec == batchsandbox.v["spec"].v["template"].v["spec"]
        volumes == ListOr(spec, "volumes")
        containers == ListOr(spec, "containers")
        main_container == containers.v[1]
        mounts == ListOr(main_container, "volumeMounts")
        main1 == Put(main_container, "volumeMounts",
                     L(mounts.v \o extra_mounts))
        spec2 == Put(Put(spec, "volumes", L(volumes.v \o extra_volumes)),
                     "containers", L([containers.v EXCEPT ![1] = main1]))
        pod_template == Put(batchsandbox.v["spec"].v["template"], "spec", spec2)
    IN  Put(batchsandbox, "spec", Put(batchsandbox.v["spec"], "template",
                                    pod_template))

\* _merge_pod_spec_extras: the manifest after the in-place merge
merge_pod_spec_extras(batchsandbox, extra_volumes, extra_mounts) ==
    IF ~(/\ Has(batchsandbox, "spec")
         /\ Has(batchsandbox.v["spec"], "template")
         /\ Has(batchsandbox.v["spec"].v["template"], "spec"))
    THEN batchsandbox
    ELSE LET spec == batchsandbox.v["spec"].v["template"].v["spec"]
             volumes == ListOr(spec, "volumes")
             spec1 == IF volumes.t = "list" /\ extra_volumes # <<>>
                      THEN Put(spec, "volumes",
                               L(AppendMissing(volumes.v, extra_volumes)))
                      ELSE spec
             containers == ListOr(spec1, "containers")
             main_container == containers.v[1]
             mounts == ListOr(main_container, "volumeMounts")
             main1 == IF mounts.t = "list" /\ extra_mounts # <<>>
                      THEN Put(main_container, "volumeMounts",
                               L(AppendMissing(mounts.v, extra_mounts)))
                      ELSE main_container
             spec2 == IF containers.t # "list" \/ ~Truthy(containers)
                      THEN spec1
                      ELSE Put(spec1, "containers",
                               L([containers.v EXCEPT ![1] = main1]))
             pod_template == Put(batchsandbox.v["spec"].v["template"], "spec", spec2)
         IN  Put(batchsandbox, "spec", Put(batchsandbox.v["spec"], "template",
                                         pod_template))

ManifestHead(name, namespace, labels, spec) ==
    D([apiVersion |-> S("sandbox.opensandbox.io/v1alpha1"),
       kind |-> S("BatchSandbox"),
       metadata |-> D([name |-> Text(name), namespace |-> namespace,
                       labels |-> labels]),
       spec |-> spec])

\* _create_workload_from_pool: the manifest submitted
pool_manifest(r, pool_ref) ==
    ManifestHead(r.sandbox_id, r.namespace, r.labels,
                 D([replicas |-> I(1),
                    poolRef |-> pool_ref,
                    expireTime |-> isoformat(r.expires_at),
                    taskTemplate |-> build_task_template(r.entrypoint, r.env)]))

\* create_workload in template mode: the manifest submitted
template_manifest(r, tmpl) ==
    LET extras == extract_template_pod_extras(tmpl)
        init_container == build_execd_init_container(r.execd_image)
        main_container ==
            build_main_container(r.image_uri, r.entrypoint, r.env,
                                 r.resource_limits, r.network_policy.t # "none")
        containers == L(<<container_to_dict(main_container)>>)
        pod_spec ==
            D([initContainers |-> L(<<container_to_dict(init_container)>>),
               containers |-> containers,
               volumes |-> L(<<D([name |-> S("opensandbox-bin"),
                                  emptyDir |-> EmptyDict])>>)])
        egress == apply_egress_to_spec(pod_spec, containers, r.network_policy,
                                       r.egress_image)
        \* containers is the list object pod_spec["containers"] holds
        pod_spec_after == Put(egress.pod_spec, "containers", egress.containers)
        runtime_manifest ==
            ManifestHead(r.sandbox_id, r.namespace, r.labels,
                         D([replicas |-> I(1),
                            expireTime |-> isoformat(r.expires_at),
                            template |-> D([spec |-> pod_spec_after])]))
        batchsandbox == merge_with_runtime_values(tmpl, runtime_manifest)
    IN  merge_pod_spec_extras(batchsandbox, extras.volumes, extras.mounts)

\* a create_workload that takes the pool path whenever the poolRef key is
\* present, empty or not
create_manifest_PoolIfPresent(r, tmpl) ==
    LET extensions == IF Truthy(r.extensions) THEN r.extensions ELSE EmptyDict
    IN  IF Has(extensions, "poolRef")
        THEN pool_manifest(r, extensions.v["poolRef"])
        ELSE template_manifest(r, tmpl)

\* create_workload: the manifest submitted to the cluster API
create_manifest(r, tmpl) ==
    LET extensions == IF Truthy(r.extensions) THEN r.extensions ELSE EmptyDict
    IN  IF Truthy(GetOr(extensions, "poolRef", None))
        THEN pool_manifest(r, extensions.v["poolRef"])
        ELSE template_manifest(r, tmpl)

----------------------------------------------------------------------------
(* validators.py.  A validator returns "ok" or the code of the HTTP 400 it   *)
(* raises.  Strings are character sequences.                                  *)

AlphaNum == Lower \cup Upper \cup Digit
LowerNum == Lower \cup Digit

Contains(s, sub) ==
    \E i \in 1..(Len(s) - Len(sub) + 1) : SubSeq(s, i, i + Len(sub) - 1) = sub

EndsWith(s, p) ==
    /\ Len(s) >= Len(p)
    /\ SubSeq(s, Len(s) - Len(p) + 1, Len(s)) = p

\* s.rstrip(c)
RECURSIVE RStrip(_, _)
RStrip(s, c) ==
    IF s # <<>> /\ s[Len(s)] = c THEN RStrip(SubSeq(s, 1, Len(s) - 1), c) ELSE s

\* s.split(c)
RECURSIVE Split(_, _)
Split(s, c) ==
    IF \A i \in 1..Len(s) : s[i] # c THEN <<s>>
    ELSE LET at == CHOOSE i \in 1..Len(s) :
                       s[i] = c /\ \A j \in 1..(i - 1) : s[j] # c
         IN  <<SubSeq(s, 1, at - 1)>> \o Split(SubSeq(s, at + 1, Len(s)), c)

\* the strings a pattern closed by "$" may match as a whole: re.match lets "$"
\* match at the end of the string and before one newline at its end
BeforeEnd(s) ==
    {s} \cup (IF s # <<>> /\ s[Len(s)] = "\n"
                THEN {SubSeq(s, 1, Len(s) - 1)} ELSE {})

\* [a-z0-9]([-a-z0-9]*[a-z0-9])?
DnsLabel(s) ==
    /\ s # <<>>
    /\ s[1] \in LowerNum
    /\ s[Len(s)] \in LowerNum
    /\ \A i \in 1..Len(s) : s[i] \in LowerNum \cup {"-"}

\* DNS_SUBDOMAIN_RE without its anchors
DnsSubdomain(s) ==
    LET labels == Split(s, ".")
    IN  \A i \in 1..Len(labels) : DnsLabel(labels[i])

\* LABEL_NAME_RE without its anchors
LabelName(s) ==
    /\ s # <<>>
    /\ s[1] \in AlphaNum
    /\ s[Len(s)] \in AlphaNum
    /\ \A i \in 1..Len(s) : s[i] \in AlphaNum \cup {"-", "_", "."}

\* LABEL_VALUE_RE without its anchors
LabelValue(s) == s = <<>> \/ LabelName(s)

ensure_entrypoint(entrypoint) ==
    IF entrypoint = <<>> THEN "INVALID_ENTRYPOINT" ELSE "ok"

\* _is_valid_label_key with the name test dropped: only the prefix is checked
is_valid_label_key_PrefixOnly(key) ==
    LET parts == Split(key, "/")
        prefix == parts[1]
        name == SubSeq(key, Len(prefix) + 2, Len(key))
    IN  IF Len(key) > 253 \/ (Contains(key, <<"/">>) /\ Len(prefix) > 253)
        THEN FALSE
        ELSE IF Contains(key, <<"/">>)
        THEN prefix # <<>> /\ name # <<>> /\ (\E m \in BeforeEnd(prefix) : DnsSubdomain(m))
        ELSE TRUE

\* _is_valid_label_key
is_valid_label_key(key) ==
    LET parts == Split(key, "/")
        prefix == parts[1]
        \* key.split("/", 1)[1]
        rest == SubSeq(key, Len(prefix) + 2, Len(key))
        name == IF Contains(key, <<"/">>) THEN rest ELSE key
    IN  IF Len(key) > 253 \/ (Contains(key, <<"/">>) /\ Len(prefix) > 253)
        THEN FALSE
        ELSE IF Contains(key, <<"/">>)
                  /\ (prefix = <<>> \/ rest = <<>>
                         \/ ~(\E m \in BeforeEnd(prefix) : DnsSubdomain(m)))
        THEN FALSE
        ELSE ~(Len(name) > 63 \/ ~(\E m \in BeforeEnd(name) : LabelName(m)))

\* _is_valid_label_value
is_valid_label_value(value) ==
    IF Len(value) > 63 THEN FALSE ELSE (\E m \in BeforeEnd(value) : LabelValue(m))

\* ensure_metadata_labels: metadata is None or the (key, value) items, each a
\* Python value
ensure_metadata_labels(metadata) ==
    IF ~Truthy(metadata) THEN "ok"
    ELSE IF \A i \in 1..Len(metadata.v) :
                LET key == metadata.v[i].key
                    value == metadata.v[i].value
                IN  /\ key.t = "text" /\ value.t = "text"
                    /\ is_valid_label_key(key.v)
                    /\ is_valid_label_value(value.v)
         THEN "ok"
         ELSE "INVALID_METADATA_LABEL"

ensure_valid_volume_name(name) ==
    IF name = <<>> \/ Len(name) > 63 \/ ~(\E m \in BeforeEnd(name) : DnsLabel(m))
    THEN "INVALID_VOLUME_NAME" ELSE "ok"

ensure_valid_mount_path(mount_path) ==
    IF mount_path = <<>> \/ ~StartsWith(mount_path, <<"/">>)
    THEN "INVALID_MOUNT_PATH" ELSE "ok"

ensure_valid_sub_path(sub_path) ==
    IF sub_path.t = "none" \/ sub_path.v = <<>> THEN "ok"
    ELSE IF StartsWith(sub_path.v, <<"/">>) THEN "INVALID_SUB_PATH"
    ELSE LET parts == Split(sub_path.v, "/")
         IN  IF \E i \in 1..Len(parts) : parts[i] = <<".", ".">>
             THEN "INVALID_SUB_PATH" ELSE "ok"

\* allowed_prefixes is None or a list of strings
ensure_valid_host_path_StringPrefix(path, allowed_prefixes) ==
    IF path = <<>> \/ ~StartsWith(path, <<"/">>) THEN "INVALID_HOST_PATH"
    ELSE IF Contains(path, <<"/", ".", ".">>) THEN "INVALID_HOST_PATH"
    ELSE IF Contains(path, <<"/", "/">>)
              \/ (Len(path) > 1 /\ EndsWith(path, <<"/">>))
    THEN "INVALID_HOST_PATH"
    ELSE IF allowed_prefixes.t # "none"
              /\ ~\E i \in 1..Len(allowed_prefixes.v) :
                     StartsWith(path, RStrip(allowed_prefixes.v[i], "/"))
    THEN "HOST_PATH_NOT_ALLOWED"
    ELSE "ok"

ensure_valid_host_path(path, allowed_prefixes) ==
    IF path = <<>> \/ ~StartsWith(path, <<"/">>) THEN "INVALID_HOST_PATH"
    ELSE IF Contains(path, <<"/", ".", ".">>) THEN "INVALID_HOST_PATH"
    ELSE IF Contains(path, <<"/", "/">>)
              \/ (Len(path) > 1 /\ EndsWith(path, <<"/">>))
    THEN "INVALID_HOST_PATH"
    ELSE IF allowed_prefixes.t # "none"
              /\ ~\E i \in 1..Len(allowed_prefixes.v) :
                     LET prefix == RStrip(allowed_prefixes.v[i], "/")
                     IN  path = prefix \/ StartsWith(path, prefix \o <<"/">>)
    THEN "HOST_PATH_NOT_ALLOWED"
    ELSE "ok"

ensure_valid_pvc_name(claim_name) ==
    IF claim_name = <<>> \/ Len(claim_name) > 253
           \/ ~(\E m \in BeforeEnd(claim_name) : DnsLabel(m))
    THEN "INVALID_PVC_NAME" ELSE "ok"

\* egress_config is None or the EgressConfig object
ensure_egress_configured(network_policy, egress_config) ==
    IF ~Truthy(network_policy) THEN "ok"
    ELSE LET egress_image == IF Truthy(egress_config)
                             THEN egress_config.v["image"] ELSE None
         IN  IF ~Truthy(egress_image) THEN "INVALID_PARAMETER" ELSE "ok"

\* the first result that is not "ok"
FirstError(results) ==
    IF \A i \in 1..Len(results) : results[i] = "ok" THEN "ok"
    ELSE results[CHOOSE i \in 1..Len(results) :
                     results[i] # "ok" /\ \A j \in 1..(i - 1) : results[j] = "ok"]

\* the body of the loop of ensure_volumes_valid
VolumeCheck(volume, seen_names, allowed_host_prefixes) ==
    LET backends_specified ==
            (IF volume.host.t # "none" THEN 1 ELSE 0)
                + (IF volume.pvc.t # "none" THEN 1 ELSE 0)
    IN  FirstError(<<
            IF volume.name \in seen_names THEN "DUPLICATE_VOLUME_NAME" ELSE "ok",
            ensure_valid_volume_name(volume.name),
            ensure_valid_mount_path(volume.mount_path),
            ensure_valid_sub_path(volume.sub_path),
            IF backends_specified # 1 THEN "INVALID_VOLUME_BACKEND" ELSE "ok",
            IF volume.host.t # "none"
            THEN ensure_valid_host_path(volume.host.v["path"],
                                        allowed_host_prefixes)
            ELSE "ok",
            IF volume.pvc.t # "none"
            THEN ensure_valid_pvc_name(volume.pvc.v["claim_name"])
            ELSE "ok">>)

RECURSIVE VolumesCheck(_, _, _)
VolumesCheck(volumes, seen_names, allowed_host_prefixes) ==
    IF volumes = <<>> THEN "ok"
    ELSE LET first == VolumeCheck(Head(volumes), seen_names,
                                  allowed_host_prefixes)
         IN  IF first # "ok" THEN first
             ELSE VolumesCheck(Tail(volumes),
                               seen_names \cup {Head(volumes).name},
                               allowed_host_prefixes)

\* volumes is None or a list of Volume objects
ensure_volumes_valid(volumes, allowed_host_prefixes) ==
    IF volumes.t = "none" \/ Len(volumes.v) = 0 THEN "ok"
    ELSE VolumesCheck(volumes.v, {}, allowed_host_prefixes)

----------------------------------------------------------------------------
(* The arguments of create_workload, and the templates a provider is         *)
(* constructed with                                                           *)

Request(sandbox_id, expires_at, entrypoint, env, resource_limits, extensions, network_policy, egress_image) ==
    [sandbox_id |-> sandbox_id,
     namespace |-> S("default"),
     image_uri |-> S("python:3.11"),
     entrypoint |-> entrypoint,
     env |-> env,
     resource_limits |-> resource_limits,
     labels |-> D("opensandbox.io/id" :> Text(sandbox_id)),
     expires_at |-> expires_at,
     execd_image |-> S("opensandbox/execd:latest"),
     extensions |-> extensions,
     network_policy |-> network_policy,
     egress_image |-> egress_image]

\* ["python", "app.py"]
PlainEntrypoint ==
    << <<"p", "y", "t", "h", "o", "n">>, <<"a", "p", "p", ".", "p", "y">> >>

\* ["echo", "it's ok"]
QuotedEntrypoint ==
    << <<"e", "c", "h", "o">>, <<"i", "t", "'", "s", " ", "o", "k">> >>

\* entrypoint, env and resource_limits of the requests: a plain command with
\* nothing set, and a command that needs quoting with both set
Settings ==
    {[entrypoint |-> PlainEntrypoint, env |-> <<>>,
      resource_limits |-> EmptyDict],
     [entrypoint |-> QuotedEntrypoint,
      env |-> <<[name |-> "FOO", value |-> "bar"]>>,
      resource_limits |-> D([cpu |-> S("500m"), memory |-> S("512Mi")])]}

Extensions == {None, D([poolRef |-> S("")]), D([poolRef |-> S("pool-a")])}

\* NetworkPolicy(default_action="deny",
\*               egress=[NetworkRule(action="allow", target="pypi.org")])
DenyPolicy ==
    O([defaultAction |-> S("deny"),
       egress |-> L(<<O([action |-> S("allow"), target |-> S("pypi.org")])>>)])

Policies == {None, DenyPolicy}

EgressImages == {None, S(""), S("opensandbox/egress:v1")}

\* a plain template-mode request without network policy
DefaultRequest(sandbox_id, expires_at) ==
    Request(sandbox_id, expires_at, PlainEntrypoint, <<>>, EmptyDict, None,
            None, None)

\* the requests the manifest is checked on: one id, one expiration
ManifestRequests ==
    {Request(<<"b">>, 1, set.entrypoint, set.env, set.resource_limits, ext,
             pol, img) :
         set \in Settings, ext \in Extensions, pol \in Policies,
         img \in EgressImages}

\* a template with labels, a volume and a mount for the sandbox container,
\* a pod sysctl and a node selector
TemplateWithExtras ==
    D([metadata |-> D([labels |-> D([team |-> S("platform")])]),
       spec |-> D([template |-> D([spec |-> D([
           nodeSelector |-> D([pool |-> S("sandbox")]),
           securityContext |-> D([sysctls |-> L(<<
               D([name |-> S("net.core.somaxconn"), value |-> S("1024")])>>)]),
           volumes |-> L(<<D([name |-> S("data"), emptyDir |-> EmptyDict]),
                           D([name |-> S("opensandbox-bin"),
                              hostPath |-> D([path |-> S("/bin")])])>>),
           containers |-> L(<<
               D([name |-> S("helper"), image |-> S("busybox")]),
               D([name |-> S("sandbox"),
                  volumeMounts |-> L(<<
                      D([name |-> S("data"), mountPath |-> S("/data")])>>)])
               >>)])])])])

\* a template whose pod already lists a container called "egress"
TemplateWithEgress ==
    D([spec |-> D([template |-> D([spec |-> D([
           containers |-> L(<<
               D([name |-> S("egress"), image |-> S("custom/egress")])>>)])])])])

\* a template without a container called "sandbox": the first container's
\* mounts are taken; one mount and one volume carry the name of a runtime
\* entry, another name occurs twice
TemplateWithCollisions ==
    D([spec |-> D([template |-> D([spec |-> D([
           initContainers |-> L(<<D([name |-> S("warmup"),
                                    image |-> S("busybox")])>>),
           volumes |-> L(<<D([name |-> S("cache"), emptyDir |-> EmptyDict]),
                           D([name |-> S("opensandbox-bin"),
                              hostPath |-> D([path |-> S("/bin")])]),
                           D([name |-> S("cache"),
                              hostPath |-> D([path |-> S("/cache")])])>>),
           containers |-> L(<<
               D([name |-> S("main"),
                  volumeMounts |-> L(<<
                      D([name |-> S("opensandbox-bin"),
                         mountPath |-> S("/usr/local/bin")]),
                      D([name |-> S("cache"), mountPath |-> S("/cache")]),
                      D([name |-> S("cache"), mountPath |-> S("/var/cache")])
                      >>)]),
               D([name |-> S("helper"),
                  volumeMounts |-> L(<<
                      D([name |-> S("logs"), mountPath |-> S("/logs")])>>)])
               >>)])])])])

Templates ==
    {None, TemplateWithExtras, TemplateWithEgress, TemplateWithCollisions}

----------------------------------------------------------------------------
(* Cluster API (CustomObjectsApi) as the providers use it.  A call either   *)
(* fails with a non-404 ApiException (fault) and has no effect, or acts on   *)
(* the named resource.                                                        *)

\* get_namespaced_custom_object(name=...)
ApiGet(st, name, fault) ==
    IF fault THEN "error"
    ELSE IF name \in DOMAIN st THEN "found" ELSE "404"

\* create_namespaced_custom_object(body=...): the name is metadata.name
ApiCreate(st, body, fault) ==
    IF fault THEN [store |-> st, outcome |-> "error"]
    ELSE LET name == body.v["metadata"].v["name"].v
         IN  IF name \in DOMAIN st THEN [store |-> st, outcome |-> "409"]
             ELSE [store |-> (name :> body) @@ st, outcome |-> "ok"]

\* delete_namespaced_custom_object(name=..., grace_period_seconds=0)
ApiDelete(st, name, fault) ==
    IF fault THEN [store |-> st, outcome |-> "error"]
    ELSE IF name \notin DOMAIN st THEN [store |-> st, outcome |-> "404"]
    ELSE [store |-> [n \in DOMAIN st \ {name} |-> st[n]], outcome |-> "ok"]

\* the merge patch the API server applies: the fields of the patch replace
\* those of the object, dict by dict
RECURSIVE MergePatch(_, _)
MergePatch(obj, patch) ==
    D([k \in DOMAIN obj.v \cup DOMAIN patch.v |->
          IF k \notin DOMAIN patch.v THEN obj.v[k]
          ELSE IF k \in DOMAIN obj.v /\ obj.v[k].t = "dict"
                    /\ patch.v[k].t = "dict"
          THEN MergePatch(obj.v[k], patch.v[k])
          ELSE patch.v[k]])

\* patch_namespaced_custom_object(name=..., body=...)
ApiPatch(st, name, body, fault) ==
    IF fault THEN [store |-> st, outcome |-> "error"]
    ELSE IF name \notin DOMAIN st THEN [store |-> st, outcome |-> "404"]
    ELSE [store |-> [st EXCEPT ![name] = MergePatch(@, body)], outcome |-> "ok"]

\* how an ApiException raised by the cluster API reaches the caller
ApiResult(outcome) ==
    CASE outcome = "ok" -> "ok"
      [] outcome = "404" -> "api_404"
      [] outcome = "409" -> "api_409"
      [] OTHER -> "api_error"

----------------------------------------------------------------------------
(* BatchSandboxProvider / AgentSandboxProvider: the calls on stored          *)
(* workloads.  Both providers run the same code on their own CRD.  fault is   *)
(* the position of the cluster API call that fails with a non-404            *)
(* ApiException in this run of the handler (0: none does): 1 the lookup by   *)
(* id, 2 the lookup by the legacy name, 3 the delete or patch.               *)

Lookup(name, outcome) == [name |-> name, outcome |-> outcome]

\* get_workload, the lookup by the plain id: kind is "obj" (found), "raise"
\* (non-404 error), "fallback" (404, a legacy name to try) or "none"
first_lookup(st, sandbox_id, fault) ==
    LET o == ApiGet(st, sandbox_id, fault)
        legacy_name == legacy_resource_name(sandbox_id)
    IN  [lookup |-> Lookup(sandbox_id, o),
         name |-> IF o = "found" THEN sandbox_id ELSE NoName,
         kind |-> IF o = "found" THEN "obj"
                  ELSE IF o # "404" THEN "raise"
                  ELSE IF legacy_name # sandbox_id THEN "fallback"
                  ELSE "none"]

\* get_workload, the lookup by the legacy name "sandbox-<id>"
legacy_lookup(st, sandbox_id, fault) ==
    LET legacy_name == legacy_resource_name(sandbox_id)
        o == ApiGet(st, legacy_name, fault)
    IN  [lookup |-> Lookup(legacy_name, o),
         name |-> IF o = "found" THEN legacy_name ELSE NoName,
         kind |-> IF o = "found" THEN "obj"
                  ELSE IF o = "404" THEN "none"
                  ELSE "raise"]

\* get_workload with the first lookup's handler swallowing every ApiException
\* (the status test dropped), so that a non-404 error also falls back
get_workload_SwallowsError(st, sandbox_id, fault) ==
    LET a == first_lookup(st, sandbox_id, fault = 1)
        b == legacy_lookup(st, sandbox_id, fault = 2)
    IN  IF a.kind = "obj"
        THEN [kind |-> a.kind, name |-> a.name, lookups |-> <<a.lookup>>]
        ELSE [kind |-> b.kind, name |-> b.name,
              lookups |-> <<a.lookup, b.lookup>>]

\* get_workload: kind is "obj" (the resource called name), "none" or "raise"
get_workload(st, sandbox_id, fault) ==
    LET a == first_lookup(st, sandbox_id, fault = 1)
    IN  IF a.kind = "fallback"
        THEN LET b == legacy_lookup(st, sandbox_id, fault = 2)
             IN  [kind |-> b.kind, name |-> b.name,
                  lookups |-> <<a.lookup, b.lookup>>]
        ELSE [kind |-> a.kind, name |-> a.name, lookups |-> <<a.lookup>>]

\* the result a caller of get_workload sees
GetResult(g) ==
    CASE g.kind = "obj" -> "ok"
      [] g.kind = "none" -> "none"
      [] OTHER -> "api_error"

\* create_workload: the manifest is submitted under metadata.name = sandbox_id
create_workload(st, r, tmpl, fault) ==
    LET c == ApiCreate(st, create_manifest(r, tmpl), fault = 1)
    IN  [store |-> c.store, result |-> ApiResult(c.outcome)]

\* the body update_expiration patches with
expiration_patch(expires_at) ==
    D([spec |-> D([expireTime |-> isoformat(expires_at)])])

\* delete_workload
delete_workload(st, sandbox_id, fault) ==
    LET g == get_workload(st, sandbox_id, fault)
    IN  IF g.kind = "raise"
        THEN [store |-> st, result |-> "api_error", get |-> g]
        ELSE IF g.kind = "none"
        THEN [store |-> st, result |-> "not_found", get |-> g]
        ELSE LET d == ApiDelete(st, g.name, fault = 3)
             IN  [store |-> d.store, result |-> ApiResult(d.outcome), get |-> g]

\* update_expiration patching by the plain id before it looks the workload up
update_expiration_PatchFirst(st, sandbox_id, expires_at, fault) ==
    LET u == ApiPatch(st, sandbox_id, expiration_patch(expires_at), FALSE)
        g == get_workload(u.store, sandbox_id, fault)
    IN  IF g.kind = "raise"
        THEN [store |-> u.store, result |-> "api_error", get |-> g]
        ELSE IF g.kind = "none"
        THEN [store |-> u.store, result |-> "not_found", get |-> g]
        ELSE [store |-> u.store, result |-> "ok", get |-> g]

\* update_expiration
update_expiration(st, sandbox_id, expires_at, fault) ==
    LET g == get_workload(st, sandbox_id, fault)
    IN  IF g.kind = "raise"
        THEN [store |-> st, result |-> "api_error", get |-> g]
        ELSE IF g.kind = "none"
        THEN [store |-> st, result |-> "not_found", get |-> g]
        ELSE LET u == ApiPatch(st, g.name, expiration_patch(expires_at),
                               fault = 3)
             IN  [store |-> u.store, result |-> ApiResult(u.outcome), get |-> g]

----------------------------------------------------------------------------
(* Spec: provider calls made one after the other                             *)

Call(op, id, arg, result, lookups, name, changed) ==
    [op |-> op, id |-> id, arg |-> arg, result |-> result,
     lookups |-> lookups, name |-> name, changed |-> changed]

NoCall == Call("none", NoName, 0, "none", <<>>, NoName, FALSE)

\* what prev keeps of a call: the id of a delete_workload that returned
\* normally, NoName for any other call
Deleted(c) == IF c.op = "delete" /\ c.result = "ok" THEN c.id ELSE NoName

DockerCall(op, id, request, status, code, items) ==
    [op |-> op, id |-> id, request |-> request, status |-> status,
     code |-> code, items |-> items]

NoDockerCall == DockerCall("none", 0, None, 0, "none", <<>>)

\* the docker service part of the state when only a provider is run
NotApplied == [t |-> "not_applied"]

DockerIdle ==
    /\ config = [network_mode |-> "bridge", egress |-> None,
                 allowed_host_paths |-> None]
    /\ daemon = <<>>
    /\ pending_sandboxes = <<>>
    /\ cleanups = <<>>
    /\ wpc = <<>>
    /\ dlast = NoDockerCall
    /\ sidecars = {}
    /\ expirations = {}

\* ---- provider factory (services/k8s/provider_factory.py) ----

UpperLetters == <<"A", "B", "C", "D", "E", "F", "G", "H", "I", "J", "K", "L", "M",
                  "N", "O", "P", "Q", "R", "S", "T", "U", "V", "W", "X", "Y", "Z">>

LowerLetters == <<"a", "b", "c", "d", "e", "f", "g", "h", "i", "j", "k", "l", "m",
                  "n", "o", "p", "q", "r", "s", "t", "u", "v", "w", "x", "y", "z">>

\* str.lower() of one character
lower_char(c) ==
    IF \E i \in DOMAIN UpperLetters : UpperLetters[i] = c
    THEN LowerLetters[CHOOSE i \in DOMAIN UpperLetters : UpperLetters[i] = c]
    ELSE c

\* str.lower()
lower(s) == [i \in DOMAIN s |-> lower_char(s[i])]

PROVIDER_TYPE_BATCHSANDBOX == <<"b", "a", "t", "c", "h", "s", "a", "n", "d", "b", "o", "x">>

\* a class object: whether it derives from WorkloadProvider, whether it still
\* has abstract methods, whether its constructor takes template_file_path
Class(name, is_provider, abstract, takes_template) ==
    [name |-> name, is_provider |-> is_provider, abstract |-> abstract,
     takes_template |-> takes_template]

BatchSandboxProvider == Class("BatchSandboxProvider", TRUE, FALSE, TRUE)

\* a provider as the registration example and the tests write it:
\* __init__(self, k8s_client)
CustomProvider == Class("CustomProvider", TRUE, FALSE, FALSE)

\* the abstract base class itself
WorkloadProvider == Class("WorkloadProvider", TRUE, TRUE, FALSE)

\* a class outside the WorkloadProvider hierarchy
NotAProvider == Class("NotAProvider", FALSE, FALSE, FALSE)

\* _PROVIDER_REGISTRY as the module defines it; a dict is its items in
\* insertion order
DefaultRegistry == <<[key |-> PROVIDER_TYPE_BATCHSANDBOX, class |-> BatchSandboxProvider]>>

RegistryKeys(reg) == {reg[i].key : i \in DOMAIN reg}

\* _PROVIDER_REGISTRY[key]
RegistryGet(reg, key) == reg[CHOOSE i \in DOMAIN reg : reg[i].key = key].class

\* _PROVIDER_REGISTRY[key] = provider_class: an existing key keeps its place
RegistrySet(reg, key, provider_class) ==
    IF key \in RegistryKeys(reg)
    THEN [i \in DOMAIN reg |->
            IF reg[i].key = key THEN [key |-> key, class |-> provider_class] ELSE reg[i]]
    ELSE Append(reg, [key |-> key, class |-> provider_class])

Instance(class, template_file_path) ==
    [t |-> "instance", class |-> class, template_file_path |-> template_file_path]

FactoryRaise(code) == [t |-> "raise", code |-> code]

FactoryOk == [t |-> "ok"]

\* provider_class(k8s_client) when keyword = None, and
\* provider_class(k8s_client, template_file_path=keyword.v) otherwise
Instantiate(class, keyword) ==
    IF class.abstract THEN FactoryRaise("TypeError")
    ELSE IF keyword # None /\ ~class.takes_template THEN FactoryRaise("TypeError")
    ELSE Instance(class, IF keyword = None THEN None ELSE keyword.v)

\* a KubernetesRuntimeConfig with its batchsandbox_template_file
KubernetesRuntimeConfig(template_file) == [t |-> "config", batchsandbox_template_file |-> template_file]

\* provider_type is None or a text
create_workload_provider(reg, provider_type, k8s_config) ==
    IF provider_type = None /\ reg = <<>> THEN FactoryRaise("ValueError")
    ELSE LET named == IF provider_type = None THEN reg[1].key ELSE provider_type.v
             provider_type_lower == lower(named)
         IN  IF provider_type_lower \notin RegistryKeys(reg) THEN FactoryRaise("ValueError")
             ELSE LET provider_class == RegistryGet(reg, provider_type_lower)
                  IN  IF provider_type_lower = PROVIDER_TYPE_BATCHSANDBOX /\ k8s_config # None
                      THEN Instantiate(provider_class,
                                       [v |-> k8s_config.batchsandbox_template_file])
                      ELSE Instantiate(provider_class, None)

\* the registry after the call and what the call returned or raised
register_provider(reg, name, provider_class) ==
    IF ~provider_class.is_provider
    THEN [registry |-> reg, result |-> FactoryRaise("TypeError")]
    ELSE [registry |-> RegistrySet(reg, lower(name), provider_class), result |-> FactoryOk]

\* the names callers use: both registered kinds in several letter cases
ProviderNames ==
    {PROVIDER_TYPE_BATCHSANDBOX,
     <<"B", "a", "t", "c", "h", "S", "a", "n", "d", "b", "o", "x">>,
     <<"p", "o", "d">>, <<"P", "o", "d">>, <<"P", "O", "D">>}

\* provider_type as a caller passes it: a name, or None for the default
ProviderTypes == {Text(name) : name \in ProviderNames} \cup {None}

ProviderClasses == {BatchSandboxProvider, CustomProvider, WorkloadProvider, NotAProvider}

TemplateFile == Text(<<"t", ".", "y", "a", "m", "l">>)

RuntimeConfigs == {None, KubernetesRuntimeConfig(None), KubernetesRuntimeConfig(TemplateFile)}

FactoryCall(op, name, class, k8s_config, result, before) ==
    [op |-> op, name |-> name, class |-> class, config |-> k8s_config,
     result |-> result, before |-> before]

\* the provider factory as the module is imported, no call made
NoFactoryCall == FactoryCall("none", None, None, None, None, <<>>)

RegistryIdle ==
    /\ registry = DefaultRegistry
    /\ rcall = NoFactoryCall

\* no function is being applied
FnIdle ==
    /\ fin = [op |-> "none"]
    /\ fout = NotApplied

RaceIdle ==
    /\ rpc = [p \in {"renew", "delete"} |-> "idle"]
    /\ rgot = [p \in {"renew", "delete"} |-> NoName]
    /\ rres = [p \in {"renew", "delete"} |-> "none"]
    /\ rin = [id |-> NoName, expires_at |-> 0, store |-> <<>>]

Init ==
    /\ template = None
    /\ store = <<>>
    /\ last = NoCall
    /\ prev = NoName
    /\ RaceIdle
    /\ DockerIdle
    /\ FnIdle
    /\ RegistryIdle

CreateWorkload(r, fault) ==
    LET c == create_workload(store, r, template, fault)
    IN  /\ store' = c.store
        /\ last' = Call("create", r.sandbox_id, r, c.result, <<>>,
                        r.sandbox_id, c.store # store)
        /\ prev' = Deleted(last)
        /\ UNCHANGED <<template, raceVars, dockerVars, restoreVars, fnVars, registryVars>>

GetWorkload(id, fault) ==
    LET g == get_workload(store, id, fault)
    IN  /\ last' = Call("get", id, 0, GetResult(g), g.lookups, g.name, FALSE)
        /\ prev' = Deleted(last)
        /\ UNCHANGED <<template, store, raceVars, dockerVars, restoreVars, fnVars, registryVars>>

DeleteWorkload(id, fault) ==
    LET d == delete_workload(store, id, fault)
    IN  /\ store' = d.store
        /\ last' = Call("delete", id, 0, d.result, d.get.lookups, d.get.name,
                        d.store # store)
        /\ prev' = Deleted(last)
        /\ UNCHANGED <<template, raceVars, dockerVars, restoreVars, fnVars, registryVars>>

UpdateExpiration(id, e, fault) ==
    LET u == update_expiration(store, id, e, fault)
    IN  /\ store' = u.store
        /\ last' = Call("update", id, e, u.result, u.get.lookups, u.get.name,
                        u.store # store)
        /\ prev' = Deleted(last)
        /\ UNCHANGED <<template, raceVars, dockerVars, restoreVars, fnVars, registryVars>>

Next ==
    \/ \E id \in Ids, e \in Times, fault \in 0..1 :
           CreateWorkload(DefaultRequest(id, e), fault)
    \/ \E id \in Ids, fault \in 0..2 : GetWorkload(id, fault)
    \/ \E id \in Ids, fault \in 0..3 : DeleteWorkload(id, fault)
    \/ \E id \in Ids, e \in Times, fault \in 0..3 : UpdateExpiration(id, e, fault)

Spec == Init /\ [][Next]_vars

----------------------------------------------------------------------------
(* Claims on the provider calls (Spec)                                       *)

\* the resource name get_workload(id) resolves in st when no call fails
Resolves(st, id) == get_workload(st, id, 0).name

\* C1: a sandbox id exclusively owns its backend workload: no resource is
\* resolved by get_workload (legacy fallback included) for two distinct ids,
\* and delete_workload(i) never removes the resource get_workload(j) resolves
\* for another id j.
C1_ExclusiveOwnership ==
    \A i, j \in Ids :
        i # j =>
            LET ri == Resolves(store, i)
                rj == Resolves(store, j)
                after == delete_workload(store, i, 0).store
            IN  /\ ri # NoName => ri # rj
                /\ rj # NoName => rj \in DOMAIN after

\* C3: delete(i) right after a delete(i) that succeeded: it succeeds or
\* reports not-found, changes no backend state, and no workload for i remains.
C3_DeleteIdempotent ==
    (last.op = "delete" /\ prev = last.id /\ last.result # "api_error") =>
        /\ last.result \in {"ok", "not_found", "api_404"}
        /\ ~last.changed
        /\ Resolves(store, last.id) = NoName

\* C4: an update_expiration that fails (workload not found, or a cluster API
\* call raises) leaves every stored expiration unchanged; expirations change
\* in an update_expiration step only when the call succeeded.
C4_FailedRenewKeepsExpiration ==
    [][(last'.op = "update" /\ last'.result # "ok") => store' = store]_vars

\* C4 witness: the patch of a resolved workload raised, the new expiration
\* differing from the stored one
C4_Witness ==
    /\ last.op = "update"
    /\ last.result = "api_error"
    /\ Len(last.lookups) = 2
    /\ last.name \in DOMAIN store
    /\ store[last.name].v["spec"].v["expireTime"] # isoformat(last.arg)

\* C7: get_workload looks the plain id up first; it looks "sandbox-"+id up iff
\* that returned 404 and the id does not already carry the prefix; it returns
\* the workload of the first lookup that found one (the plain name wins),
\* null exactly when every lookup returned 404, and raises on any other error.
C7_LegacyFallbackProtocol ==
    last.op = "get" =>
        LET ls == last.lookups
            found == {k \in 1..Len(ls) : ls[k].outcome = "found"}
            all404 == \A k \in 1..Len(ls) : ls[k].outcome = "404"
        IN  /\ Len(ls) \in {1, 2}
            /\ ls[1].name = last.id
            /\ Len(ls) = 2 <=>
                   (ls[1].outcome = "404" /\ ~StartsWith(last.id, SandboxPrefix))
            /\ Len(ls) = 2 => ls[2].name = SandboxPrefix \o last.id
            /\ \A k \in 1..Len(ls) :
                   \/ ls[k].outcome = "error"
                   \/ (ls[k].outcome = "found" <=> ls[k].name \in DOMAIN store)
            /\ found # {} =>
                   /\ last.result = "ok"
                   /\ \E k \in found :
                          /\ \A m \in found : k <= m
                          /\ last.name = ls[k].name
            /\ last.result = "none" <=> all404
            /\ (found = {} /\ ~all404) => last.result = "api_error"
            /\ (last.id \in DOMAIN store /\ last.result = "ok") =>
                   last.name = last.id

\* C7 witness: the plain lookup returned 404 and the legacy lookup found the
\* workload
C7_Witness ==
    /\ last.op = "get"
    /\ Len(last.lookups) = 2
    /\ last.result = "ok"
    /\ last.name = SandboxPrefix \o last.id

----------------------------------------------------------------------------
(* SpecManifest: create_workload on the requests of ManifestRequests, by a   *)
(* provider constructed with any template of Templates                       *)

InitManifest ==
    /\ template \in Templates
    /\ store = <<>>
    /\ last = NoCall
    /\ prev = NoName
    /\ RaceIdle
    /\ DockerIdle
    /\ FnIdle
    /\ RegistryIdle

NextManifest ==
    \/ \E r \in ManifestRequests : CreateWorkload(r, 0)
    \/ \E id \in {r.sandbox_id : r \in ManifestRequests} : DeleteWorkload(id, 0)

SpecManifest == InitManifest /\ [][NextManifest]_vars

----------------------------------------------------------------------------
(* Claims on the submitted manifest (SpecManifest)                           *)

\* the containers of the pod a stored workload declares
WorkloadContainers(w) ==
    ListOr(GetOr(GetOr(GetOr(w, "spec", EmptyDict), "template", EmptyDict),
                 "spec", EmptyDict), "containers").v

\* the positions of the egress sidecars among them
EgressSidecars(w) ==
    {i \in 1..Len(WorkloadContainers(w)) :
         GetOr(WorkloadContainers(w)[i], "name", None) = S("egress")}

CreatedOk == last.op = "create" /\ last.result = "ok"

\* C2: a workload created with a non-null network policy and a configured
\* egress image carries exactly one egress sidecar, in template mode and in
\* pool mode; a workload created with a null network policy carries none.
C2_EgressCoupling ==
    CreatedOk =>
        LET r == last.arg
            found == EgressSidecars(store[last.name])
        IN  /\ (r.network_policy # None /\ Truthy(r.egress_image)) =>
                   Cardinality(found) = 1
            /\ r.network_policy = None => found = {}

\* C6: when the network policy is null or the egress image is null, the
\* workload created is the one created for the same request without a network
\* policy: no sidecar, no NET_ADMIN drop on the main container, no IPv6
\* sysctls.
C6_NoOpRule ==
    CreatedOk =>
        LET r == last.arg
        IN  (r.network_policy = None \/ r.egress_image = None) =>
                store[last.name] =
                    create_manifest([r EXCEPT !.network_policy = None], template)

----------------------------------------------------------------------------
(* SpecRace: update_expiration(id, e) and delete_workload(id) of the same    *)
(* id run concurrently.  Each cluster API call is one step; the providers    *)
(* take no lock.  The store at the start is any store create_workload can    *)
(* have built.                                                                *)

Procs == {"renew", "delete"}

StoreOf(exp) ==
    [n \in DOMAIN exp |-> create_manifest(DefaultRequest(n, exp[n]), None)]

Stores == UNION {{StoreOf(exp) : exp \in [N -> Times]} : N \in SUBSET Ids}

InitRace ==
    /\ template = None
    /\ store \in Stores
    /\ last = NoCall
    /\ prev = NoName
    /\ rin \in {[id |-> i, expires_at |-> e, store |-> store] :
                    i \in Ids, e \in Times}
    /\ rpc = [p \in Procs |-> "lookup1"]
    /\ rgot = [p \in Procs |-> NoName]
    /\ rres = [p \in Procs |-> "none"]
    /\ DockerIdle
    /\ FnIdle
    /\ RegistryIdle

\* where a call stands after a lookup of get_workload returned r
AfterLookup(p, r) ==
    /\ rgot' = [rgot EXCEPT ![p] = r.name]
    /\ rpc' = [rpc EXCEPT ![p] =
                  CASE r.kind = "obj" -> "call"
                    [] r.kind = "fallback" -> "lookup2"
                    [] OTHER -> "done"]
    /\ rres' = [rres EXCEPT ![p] =
                  CASE r.kind = "none" -> "not_found"
                    [] r.kind = "raise" -> "api_error"
                    [] OTHER -> @]

RaceLookup1(p) ==
    /\ rpc[p] = "lookup1"
    /\ AfterLookup(p, first_lookup(store, rin.id, FALSE))
    /\ UNCHANGED <<template, provVars, rin, dockerVars, restoreVars, fnVars, registryVars>>

RaceLookup2(p) ==
    /\ rpc[p] = "lookup2"
    /\ AfterLookup(p, legacy_lookup(store, rin.id, FALSE))
    /\ UNCHANGED <<template, provVars, rin, dockerVars, restoreVars, fnVars, registryVars>>

\* the patch of update_expiration, the delete of delete_workload
RaceCall(p) ==
    /\ rpc[p] = "call"
    /\ LET c == IF p = "renew"
                THEN ApiPatch(store, rgot[p], expiration_patch(rin.expires_at),
                              FALSE)
                ELSE ApiDelete(store, rgot[p], FALSE)
       IN  /\ store' = c.store
           /\ rres' = [rres EXCEPT ![p] = ApiResult(c.outcome)]
    /\ rpc' = [rpc EXCEPT ![p] = "done"]
    /\ UNCHANGED <<template, last, prev, rgot, rin, dockerVars, restoreVars, fnVars, registryVars>>

NextRace ==
    \E p \in Procs :
        \/ RaceLookup1(p)
        \/ RaceLookup2(p)
        \/ RaceCall(p)

SpecRace == InitRace /\ [][NextRace]_vars

----------------------------------------------------------------------------
(* Claims on the concurrent renew and delete (SpecRace)                      *)

\* a 404 from the cluster API and the provider's own "not found" both report
\* a missing workload
Reported(result) == IF result = "api_404" THEN "not_found" ELSE result

RenewThenDelete(st, id, e) ==
    LET u == update_expiration(st, id, e, 0)
        d == delete_workload(u.store, id, 0)
    IN  [store |-> d.store, renew |-> Reported(u.result),
         delete |-> Reported(d.result)]

DeleteThenRenew(st, id, e) ==
    LET d == delete_workload(st, id, 0)
        u == update_expiration(d.store, id, e, 0)
    IN  [store |-> u.store, renew |-> Reported(u.result),
         delete |-> Reported(d.result)]

\* C5: when a concurrent update_expiration(i, e) and delete_workload(i) have
\* both returned, the backend state and the two results are those of one of
\* the two sequential orders.
C5_RenewDeleteSerialized ==
    (\A p \in Procs : rpc[p] = "done") =>
        [store |-> store, renew |-> Reported(rres["renew"]),
         delete |-> Reported(rres["delete"])]
            \in {RenewThenDelete(rin.store, rin.id, rin.expires_at),
                 DeleteThenRenew(rin.store, rin.id, rin.expires_at)}

----------------------------------------------------------------------------
(* DockerSandboxService: the lifecycle engine on a container daemon.  A      *)
(* create request is validated by validators.py; the engine around the      *)
(* validators follows the design document.                                   *)

SandboxIds == 1..MaxSandboxes

\* "/data"
DataDir == <<"/", "d", "a", "t", "a">>

EgressConfig == O([image |-> S("egress:latest")])

DockerConfigs ==
    {[network_mode |-> m, egress |-> e, allowed_host_paths |-> L(<<DataDir>>)] :
         m \in {"bridge", "host"}, e \in {None, EgressConfig}}

\* Volume(name=..., host=Host(path=...), mount_path="/mnt")
HostVolume(name, path) ==
    [name |-> name, mount_path |-> <<"/", "m", "n", "t">>, sub_path |-> None,
     host |-> O([path |-> path]), pvc |-> None]

CreateSandboxRequest(entrypoint, metadata, volumes, network_policy) ==
    [entrypoint |-> entrypoint, metadata |-> metadata, volumes |-> volumes,
     network_policy |-> network_policy]

Label(key, value) == [key |-> Text(key), value |-> Text(value)]

TeamLabel == L(<<Label(<<"t", "e", "a", "m">>, <<"a">>)>>)

\* {"Bad Key": "ok"}
BadLabel == L(<<Label(<<"B", "a", "d", " ", "K", "e", "y">>, <<"o", "k">>)>>)

DataVolume == HostVolume(<<"v", "1">>, DataDir \o <<"/", "x">>)

\* a host path outside the allowlist
EtcVolume == HostVolume(<<"v", "2">>, <<"/", "e", "t", "c">>)

ValidRequests ==
    {CreateSandboxRequest(PlainEntrypoint, TeamLabel, L(<<DataVolume>>), None)}

PolicyRequests ==
    {CreateSandboxRequest(PlainEntrypoint, None, None, DenyPolicy)}

NoEntrypointRequests ==
    {CreateSandboxRequest(<<>>, TeamLabel, None, None)}

BadLabelRequests ==
    {CreateSandboxRequest(PlainEntrypoint, BadLabel, None, None)}

BadVolumeRequests ==
    {CreateSandboxRequest(PlainEntrypoint, None, L(<<DataVolume, EtcVolume>>),
                          None)}

CreateRequests ==
    ValidRequests \cup PolicyRequests \cup NoEntrypointRequests
        \cup BadLabelRequests \cup BadVolumeRequests

\* the requests queued for asynchronous provisioning: one the worker
\* provisions or fails at the provider, one with a policy, which the worker
\* rejects when egress is not configured or the network mode is host, and one
\* the worker always rejects
AsyncRequests == ValidRequests \cup PolicyRequests \cup BadLabelRequests

\* create, step 1: the validations, in order; a configured allowlist without
\* entries is no allowlist
validate_create(request, cfg) ==
    FirstError(<<
        ensure_entrypoint(request.entrypoint),
        ensure_metadata_labels(request.metadata),
        ensure_volumes_valid(request.volumes,
                             IF Truthy(cfg.allowed_host_paths)
                             THEN cfg.allowed_host_paths ELSE None),
        ensure_egress_configured(request.network_policy, cfg.egress),
        IF Truthy(request.network_policy) /\ cfg.network_mode = "host"
        THEN "INVALID_PARAMETER" ELSE "ok">>)

\* create, step 2: a sandbox id neither active nor pending
FreeIds == SandboxIds \ (DOMAIN daemon \cup DOMAIN pending_sandboxes)

NewId == CHOOSE i \in FreeIds : \A j \in FreeIds : i <= j

Container(state, metadata) == [state |-> state, metadata |-> metadata]

PendingSandbox(request, state, reason) ==
    [request |-> request, state |-> state, reason |-> reason]

Without(f, i) == [j \in DOMAIN f \ {i} |-> f[j]]

\* the sandbox a container is reported as
container_to_sandbox(i, c) ==
    [id |-> i, state |-> c.state, reason |-> "CONTAINER_RUNNING",
     metadata |-> c.metadata]

\* the sandbox a pending record is reported as
pending_to_sandbox(i, p) ==
    [id |-> i, state |-> p.state, reason |-> p.reason,
     metadata |-> p.request.metadata]

\* the elements of a set of sandbox ids in ascending order
RECURSIVE Ascending(_)
Ascending(ids) ==
    IF ids = {} THEN <<>>
    ELSE LET i == CHOOSE x \in ids : \A y \in ids : x <= y
         IN  <<i>> \o Ascending(ids \ {i})

ContainerItems(dm) ==
    [k \in 1..Cardinality(DOMAIN dm) |->
        container_to_sandbox(Ascending(DOMAIN dm)[k],
                             dm[Ascending(DOMAIN dm)[k]])]

PendingItems(pend, ids) ==
    [k \in 1..Cardinality(ids) |->
        pending_to_sandbox(Ascending(ids)[k], pend[Ascending(ids)[k]])]

\* list with every pending record merged in, whether or not a container of
\* the same id was listed
list_sandboxes_NoDedup(dm, pend) ==
    ContainerItems(dm) \o PendingItems(pend, DOMAIN pend)

\* list: the containers the daemon lists, then the pending records of the
\* ids no container was listed for
list_sandboxes(dm, pend) ==
    ContainerItems(dm) \o PendingItems(pend, DOMAIN pend \ DOMAIN dm)

\* get: the container's sandbox, else the pending record's, else None
get_sandbox(dm, pend, i) ==
    IF i \in DOMAIN dm THEN container_to_sandbox(i, dm[i])
    ELSE IF i \in DOMAIN pend THEN pending_to_sandbox(i, pend[i])
    ELSE None

Count(cl, i) == IF i \in DOMAIN cl THEN cl[i] ELSE 0

\* the failure path of the worker with the cleanup left out
provision_failed_NoCleanup(pend, dm, cl, i) ==
    [pending |-> [pend EXCEPT ![i].state = "Failed",
                              ![i].reason = "PROVISIONING_ERROR"],
     daemon |-> dm,
     cleanups |-> cl,
     pos |-> "returned"]

\* the async worker when the synchronous path failed for sandbox i: the
\* pending record is marked Failed, cleanupFailedContainers(i) is called, and
\* the worker returns
provision_failed(pend, dm, cl, i) ==
    [pending |-> [pend EXCEPT ![i].state = "Failed",
                              ![i].reason = "PROVISIONING_ERROR"],
     daemon |-> Without(dm, i),
     cleanups |-> (i :> (Count(cl, i) + 1)) @@ cl,
     pos |-> "returned"]

\* the egress sidecar created ahead of the main container of sandbox i: one
\* when the request carries a network policy
SidecarFor(request, i) ==
    IF Truthy(request.network_policy) THEN {i} ELSE {}

\* create, synchronous path.  outcome is that of the provider's create.
CreateSandbox(request, outcome) ==
    LET code == validate_create(request, config)
    IN  /\ IF code # "ok"
           THEN /\ outcome = "ok"
                /\ dlast' = DockerCall("create", 0, request, 400, code, <<>>)
                /\ UNCHANGED <<daemon, pending_sandboxes, cleanups, wpc,
                               restoreVars>>
           ELSE /\ FreeIds # {}
                /\ IF outcome = "ok"
                   THEN /\ daemon' = (NewId :> Container("Running",
                                                         request.metadata))
                                         @@ daemon
                        /\ sidecars' = sidecars \cup SidecarFor(request, NewId)
                        /\ expirations' = expirations \cup {NewId}
                        /\ dlast' = DockerCall("create", NewId, request, 200,
                                               "ok", <<>>)
                   ELSE /\ daemon' = daemon
                        /\ UNCHANGED restoreVars
                        /\ dlast' = DockerCall("create", NewId, request, 500,
                                               "UNEXPECTED_RESPONSE", <<>>)
                /\ UNCHANGED <<pending_sandboxes, cleanups, wpc>>
        /\ UNCHANGED <<config, k8sVars, fnVars, registryVars>>

\* create, asynchronous path: the pending record is inserted and the call
\* returns
CreateSandboxAsync(request) ==
    /\ FreeIds # {}
    /\ pending_sandboxes' =
           (NewId :> PendingSandbox(request, "Pending", "SANDBOX_SCHEDULED"))
               @@ pending_sandboxes
    /\ wpc' = (NewId :> "queued") @@ wpc
    /\ dlast' = DockerCall("create_async", NewId, request, 202, "ok", <<>>)
    /\ UNCHANGED <<config, daemon, cleanups, restoreVars, k8sVars, fnVars, registryVars>>

\* the async worker of sandbox i runs the synchronous path.  outcome is that
\* of the provider's create; leftover: a failed create left a container.
WorkerProvision(i, outcome, leftover) ==
    /\ i \in DOMAIN wpc
    /\ wpc[i] = "queued"
    /\ LET request == pending_sandboxes[i].request
           code == validate_create(request, config)
       IN  IF code = "ok" /\ outcome = "ok"
           THEN /\ ~leftover
                /\ daemon' = (i :> Container("Running", request.metadata))
                                 @@ daemon
                /\ sidecars' = sidecars \cup SidecarFor(request, i)
                /\ expirations' = expirations \cup {i}
                /\ wpc' = [wpc EXCEPT ![i] = "provisioned"]
                /\ dlast' = DockerCall("worker", i, request, 0, "provisioned",
                                       <<>>)
                /\ UNCHANGED <<pending_sandboxes, cleanups>>
           ELSE LET partial == IF leftover
                               THEN (i :> Container("Created",
                                                    request.metadata))
                                        @@ daemon
                               ELSE daemon
                    f == provision_failed(pending_sandboxes, partial,
                                          cleanups, i)
                IN  /\ outcome = "fail"
                    /\ leftover => code = "ok"
                    /\ pending_sandboxes' = f.pending
                    /\ daemon' = f.daemon
                    /\ cleanups' = f.cleanups
                    /\ sidecars' = sidecars \ {i}
                    /\ expirations' = expirations
                    /\ wpc' = [wpc EXCEPT ![i] = f.pos]
                    /\ dlast' = DockerCall("worker", i, request, 0,
                                           IF leftover THEN "failed_leftover"
                                           ELSE "failed", <<>>)
    /\ UNCHANGED <<config, k8sVars, fnVars, registryVars>>

\* the async worker of sandbox i after a successful provisioning: the
\* pending record is dropped
WorkerFinish(i) ==
    /\ i \in DOMAIN wpc
    /\ wpc[i] = "provisioned"
    /\ pending_sandboxes' = Without(pending_sandboxes, i)
    /\ wpc' = [wpc EXCEPT ![i] = "returned"]
    /\ dlast' = DockerCall("worker", i, None, 0, "finished", <<>>)
    /\ UNCHANGED <<config, daemon, cleanups, restoreVars, k8sVars, fnVars, registryVars>>

ListSandboxes ==
    /\ dlast' = DockerCall("list", 0, None, 200, "ok",
                           list_sandboxes(daemon, pending_sandboxes))
    /\ UNCHANGED <<config, daemon, pending_sandboxes, cleanups, wpc,
                   restoreVars, k8sVars, fnVars, registryVars>>

GetSandbox(i) ==
    LET found == get_sandbox(daemon, pending_sandboxes, i)
    IN  /\ dlast' = IF found = None
                    THEN DockerCall("get", i, None, 404, "NOT_FOUND", <<>>)
                    ELSE DockerCall("get", i, None, 200, "ok", <<found>>)
        /\ UNCHANGED <<config, daemon, pending_sandboxes, cleanups, wpc,
                       restoreVars, k8sVars, fnVars, registryVars>>

InitDocker ==
    /\ template = None
    /\ store = <<>>
    /\ last = NoCall
    /\ prev = NoName
    /\ RaceIdle
    /\ config \in DockerConfigs
    /\ daemon = <<>>
    /\ pending_sandboxes = <<>>
    /\ cleanups = <<>>
    /\ wpc = <<>>
    /\ dlast = NoDockerCall
    /\ sidecars = {}
    /\ expirations = {}
    /\ FnIdle
    /\ RegistryIdle

NextDocker ==
    \/ \E request \in CreateRequests, outcome \in {"ok", "fail"} :
           CreateSandbox(request, outcome)
    \/ \E request \in AsyncRequests : CreateSandboxAsync(request)
    \/ \E i \in SandboxIds, outcome \in {"ok", "fail"}, leftover \in BOOLEAN :
           WorkerProvision(i, outcome, leftover)
    \/ \E i \in SandboxIds : WorkerFinish(i)
    \/ ListSandboxes
    \/ \E i \in SandboxIds : GetSandbox(i)

SpecDocker == InitDocker /\ [][NextDocker]_vars

----------------------------------------------------------------------------
(* Claims on the docker service (SpecDocker)                                 *)

\* the positions of the items of sandbox i in a list response
ItemsOf(items, i) == {k \in 1..Len(items) : items[k].id = i}

\* C8: an id with both a pending record and a container at the instant of
\* the call has exactly one item in the list, and list and get report the
\* container's state and metadata for it, never the pending record's; every
\* id that is pending or has a container appears in the unfiltered list.
C8_ListGetDeduplicate ==
    /\ dlast.op = "list" =>
           /\ \A i \in DOMAIN daemon \cap DOMAIN pending_sandboxes :
                  /\ Cardinality(ItemsOf(dlast.items, i)) = 1
                  /\ \A k \in ItemsOf(dlast.items, i) :
                         /\ dlast.items[k].state = daemon[i].state
                         /\ dlast.items[k].metadata = daemon[i].metadata
           /\ \A i \in DOMAIN daemon \cup DOMAIN pending_sandboxes :
                  ItemsOf(dlast.items, i) # {}
    /\ (dlast.op = "get" /\ dlast.id \in DOMAIN daemon) =>
           /\ dlast.status = 200
           /\ dlast.items[1].state = daemon[dlast.id].state
           /\ dlast.items[1].metadata = daemon[dlast.id].metadata

\* C8 witness: a list taken while a sandbox has a container and a pending
\* record, a second sandbox being pending only
C8_Witness ==
    /\ dlast.op = "list"
    /\ DOMAIN daemon \cap DOMAIN pending_sandboxes # {}
    /\ DOMAIN pending_sandboxes \ DOMAIN daemon # {}

FailedWorker == dlast.op = "worker" /\ dlast.code \in {"failed", "failed_leftover"}

\* C9: when provisioning fails in the async worker of sandbox i, the worker
\* returns without raising, the pending record of i is in state Failed, and
\* the cleanup of failed containers has run exactly once for i.
C9_AsyncFailureCleansUp ==
    /\ FailedWorker =>
           /\ wpc[dlast.id] = "returned"
           /\ pending_sandboxes[dlast.id].state = "Failed"
           /\ Count(cleanups, dlast.id) = 1
    /\ \A i \in DOMAIN cleanups : cleanups[i] <= 1

\* C9 witness: the provider's create failed in the worker and had left a
\* container behind
C9_Witness ==
    /\ dlast.op = "worker"
    /\ dlast.code = "failed_leftover"
    /\ dlast.id \notin DOMAIN daemon

\* the code a request of the claim's kinds is rejected with: the set of
\* codes it may carry, empty when the request is none of them
RejectionCodes(request, cfg) ==
    IF request \in NoEntrypointRequests THEN {"INVALID_ENTRYPOINT"}
    ELSE IF request \in BadLabelRequests THEN {"INVALID_METADATA_LABEL"}
    ELSE IF request \in BadVolumeRequests
    THEN {"INVALID_VOLUME_NAME", "INVALID_MOUNT_PATH", "INVALID_SUB_PATH",
          "INVALID_HOST_PATH", "HOST_PATH_NOT_ALLOWED", "INVALID_PVC_NAME",
          "INVALID_VOLUME_BACKEND", "DUPLICATE_VOLUME_NAME"}
    ELSE IF request \in PolicyRequests
              /\ (cfg.egress = None \/ cfg.network_mode = "host")
    THEN {"INVALID_PARAMETER"}
    ELSE {}

\* C10: a create request with an empty entrypoint, an invalid metadata label,
\* an invalid volume, a network policy without egress image or a network
\* policy under host network mode returns 400 with its code, and the step
\* creates no container and no pending record.
C10_RejectedCreateHasNoEffect ==
    [][(dlast'.op = "create" /\ RejectionCodes(dlast'.request, config) # {}) =>
           /\ dlast'.status = 400
           /\ dlast'.code \in RejectionCodes(dlast'.request, config)
           /\ UNCHANGED <<daemon, pending_sandboxes, cleanups, wpc,
                          restoreVars>>]_vars

\* C10 witness: a request with an invalid label key was rejected while a
\* container exists
C10_Witness ==
    /\ dlast.op = "create"
    /\ dlast.status = 400
    /\ dlast.request \in BadLabelRequests
    /\ daemon # <<>>

----------------------------------------------------------------------------
(* Restore of the docker service: the daemon's containers at process start *)

restore_existing_sandboxes_ReapsNone(dm, sc) ==
    [expirations |-> {i \in DOMAIN dm : dm[i].state = "Running"},
     sidecars |-> sc,
     reaped |-> <<>>]

\* _restore_existing_sandboxes: every running sandbox container is registered
\* in the expiration index again, and the egress sidecar of every sandbox id
\* whose main container is not found is cleaned up
restore_existing_sandboxes(dm, sc) ==
    [expirations |-> {i \in DOMAIN dm : dm[i].state = "Running"},
     sidecars |-> {i \in sc : i \in DOMAIN dm},
     reaped |-> Ascending({i \in sc : i \notin DOMAIN dm})]

RestoreExistingSandboxes ==
    LET r == restore_existing_sandboxes(daemon, sidecars)
    IN  /\ expirations' = r.expirations
        /\ sidecars' = r.sidecars
        /\ dlast' = DockerCall("restore", 0, None, 0, "ok", r.reaped)
        /\ UNCHANGED <<config, daemon, pending_sandboxes, cleanups, wpc,
                       k8sVars, fnVars, registryVars>>

\* the main container of sandbox i is removed from the daemon
RemoveMain(i) ==
    /\ i \in DOMAIN daemon
    /\ daemon' = Without(daemon, i)
    /\ dlast' = DockerCall("removed", i, None, 0, "ok", <<>>)
    /\ UNCHANGED <<config, pending_sandboxes, cleanups, wpc, restoreVars,
                   k8sVars, fnVars, registryVars>>

\* the containers a starting service may find: per sandbox id a running or
\* stopped main container or none, with or without an egress sidecar
DaemonStates ==
    UNION {[ids -> {Container("Running", None), Container("Exited", None)}] :
               ids \in SUBSET SandboxIds}

InitRestore ==
    /\ template = None
    /\ store = <<>>
    /\ last = NoCall
    /\ prev = NoName
    /\ RaceIdle
    /\ FnIdle
    /\ RegistryIdle
    /\ config \in {c \in DockerConfigs :
                       c.network_mode = "bridge" /\ c.egress # None}
    /\ daemon \in DaemonStates
    /\ sidecars \in SUBSET SandboxIds
    /\ expirations = {}
    /\ pending_sandboxes = <<>>
    /\ cleanups = <<>>
    /\ wpc = <<>>
    /\ dlast = NoDockerCall

NextRestore ==
    \/ RestoreExistingSandboxes
    \/ \E i \in SandboxIds : RemoveMain(i)

SpecRestore == InitRestore /\ [][NextRestore]_vars

\* C11: a restore cleans up every egress sidecar labelled for a sandbox id
\* that has no main container, and removes no sidecar whose main container
\* exists.
C11_RestoreReapsOrphans ==
    [][dlast'.op = "restore" =>
           \A i \in sidecars :
               /\ i \notin DOMAIN daemon => i \notin sidecars'
               /\ i \in DOMAIN daemon => i \in sidecars']_vars

\* a restore that reaped an orphaned sidecar and kept an owned one
C11_Witness ==
    /\ dlast.op = "restore"
    /\ dlast.items # <<>>
    /\ sidecars # {}

----------------------------------------------------------------------------
(* Applications of single functions to inputs drawn at the start *)

Ret(value) == [t |-> "ret", v |-> value]

Raise(code) == [t |-> "raise", code |-> code]

\* a validator's outcome as a result: it returns nothing or raises its code
Outcome(code) == IF code = "ok" THEN Ret(None) ELSE Raise(code)

Apply(op, result) ==
    /\ fin.op = op
    /\ fout = NotApplied
    /\ fout' = result
    /\ UNCHANGED <<fin, k8sVars, dockerVars, restoreVars, registryVars>>

(* list with a filter *)

\* the value a metadata mapping holds for a key, or None
metadata_value(metadata, key) ==
    IF ~Truthy(metadata) THEN None
    ELSE LET at == {k \in 1..Len(metadata.v) : metadata.v[k].key = key}
         IN  IF at = {} THEN None
             ELSE metadata.v[CHOOSE k \in at : TRUE].value

matches_filter_AnyPair(sandbox, states, metadata) ==
    /\ Truthy(states) =>
           \E k \in 1..Len(states.v) : states.v[k] = sandbox.state
    /\ Truthy(metadata) =>
           \E k \in 1..Len(metadata.v) :
               metadata_value(sandbox.metadata, metadata.v[k].key)
                   = metadata.v[k].value

\* the request filter of list: states OR-combined, metadata pairs
\* AND-combined; a filter field that is not given does not restrict
matches_filter(sandbox, states, metadata) ==
    /\ Truthy(states) =>
           \E k \in 1..Len(states.v) : states.v[k] = sandbox.state
    /\ Truthy(metadata) =>
           \A k \in 1..Len(metadata.v) :
               metadata_value(sandbox.metadata, metadata.v[k].key)
                   = metadata.v[k].value

\* list of the service with the request filter applied to the merged items
list_filtered(dm, pend, states, metadata) ==
    LET Matches(sandbox) == matches_filter(sandbox, states, metadata)
    IN  SelectSeq(list_sandboxes(dm, pend), Matches)

EnvLabel == Label(<<"e", "n", "v">>, <<"p">>)

TeamA == Label(<<"t", "e", "a", "m">>, <<"a">>)

TeamB == Label(<<"t", "e", "a", "m">>, <<"b">>)

MetadataValues == {None, L(<<TeamA>>), L(<<TeamA, EnvLabel>>), L(<<TeamB>>)}

MetadataFilters == {None, L(<<TeamA>>), L(<<EnvLabel, TeamA>>), L(<<EnvLabel>>)}

StateFilters ==
    {None, L(<<"Running">>), L(<<"Paused">>), L(<<"Running", "Paused">>)}

ListedContainers ==
    {Container(state, metadata) :
         state \in {"Running", "Paused"}, metadata \in MetadataValues}

ListInputs ==
    {[op |-> "list", daemon |-> dm, pending |-> pend, states |-> states,
      metadata |-> metadata] :
         dm \in UNION {[ids -> ListedContainers] : ids \in SUBSET SandboxIds},
         pend \in {<<>>} \cup
                  {(1 :> PendingSandbox(r, "Pending", "SANDBOX_SCHEDULED")) :
                       r \in ValidRequests},
         states \in StateFilters,
         metadata \in MetadataFilters}

ApplyList ==
    Apply("list", Ret(list_filtered(fin.daemon, fin.pending, fin.states,
                                    fin.metadata)))

(* ensure_future_expiration *)

\* datetime.astimezone(timezone.utc)
astimezone_utc(dt) == datetime(dt.wall - dt.tzinfo.v, I(0))

ensure_future_expiration_NotBefore(expires_at, now) ==
    LET normalized == IF expires_at.tzinfo = None
                      THEN [expires_at EXCEPT !.tzinfo = I(0)]
                      ELSE astimezone_utc(expires_at)
    IN  IF normalized.wall < now.wall
        THEN Raise("INVALID_EXPIRATION")
        ELSE Ret(normalized)

\* ensure_future_expiration; now is the reading of datetime.now(timezone.utc)
ensure_future_expiration(expires_at, now) ==
    LET normalized == IF expires_at.tzinfo = None
                      THEN [expires_at EXCEPT !.tzinfo = I(0)]
                      ELSE astimezone_utc(expires_at)
    IN  IF normalized.wall <= now.wall
        THEN Raise("INVALID_EXPIRATION")
        ELSE Ret(normalized)

ExpirationInputs ==
    {[op |-> "ensure_future_expiration", expires_at |-> datetime(wall, tz),
      now |-> datetime(now, I(0))] :
         wall \in 0..(MaxTime + 1), tz \in {None, I(-1), I(0), I(1)},
         now \in 0..MaxTime}

ApplyEnsureFutureExpiration ==
    Apply("ensure_future_expiration",
          ensure_future_expiration(fin.expires_at, fin.now))

(* ensure_valid_host_path *)

EtcDir == <<"/", "e", "t", "c">>

HostPaths ==
    {<<>>, <<"/">>, <<"d", "a", "t", "a">>, DataDir, EtcDir,
     DataDir \o <<"/">>, DataDir \o <<"/", "x">>, DataDir \o <<"x">>,
     DataDir \o <<"-", "e", "v", "i", "l">>, DataDir \o <<"/", "/", "x">>,
     DataDir \o <<"/", ".", ".">>, DataDir \o <<"/", ".", ".", "x">>,
     EtcDir \o <<"/", "x">>}

Allowlists ==
    {None, L(<<>>), L(<<DataDir>>), L(<<DataDir \o <<"/">>>>), L(<<<<"/">>>>),
     L(<<EtcDir, DataDir>>), L(<<DataDir \o <<"/", "/">>>>)}

HostPathInputs ==
    {[op |-> "ensure_valid_host_path", path |-> path,
      allowed_prefixes |-> allowed] :
         path \in HostPaths, allowed \in Allowlists}

ApplyEnsureValidHostPath ==
    Apply("ensure_valid_host_path",
          Outcome(ensure_valid_host_path(fin.path, fin.allowed_prefixes)))

(* ensure_volumes_valid *)

Volume(name, mount_path, sub_path, host, pvc) ==
    [name |-> name, mount_path |-> mount_path, sub_path |-> sub_path,
     host |-> host, pvc |-> pvc]

MountPath == <<"/", "m", "n", "t">>

Host(path) == O([path |-> path])

PVC(claim_name) == O([claim_name |-> claim_name])

\* a valid host volume and a valid pvc volume, and volumes with one defect:
\* name, name with a newline at its end, mount path, subPath, no backend,
\* two backends, host path, claim name
VolumeValues ==
    {Volume(<<"v", "1">>, MountPath, None, Host(DataDir), None),
     Volume(<<"v", "2">>, MountPath, Text(<<"s">>), None, PVC(<<"c">>)),
     Volume(<<"V">>, MountPath, None, Host(DataDir), None),
     Volume(<<"v", "1", "\n">>, MountPath, None, Host(DataDir), None),
     Volume(<<"v", "1">>, <<"m", "n", "t">>, None, Host(DataDir), None),
     Volume(<<"v", "1">>, MountPath, Text(<<".", ".", "/", "s">>),
            Host(DataDir), None),
     Volume(<<"v", "1">>, MountPath, None, None, None),
     Volume(<<"v", "1">>, MountPath, None, Host(DataDir), PVC(<<"c">>)),
     Volume(<<"v", "1">>, MountPath, None, Host(EtcDir), None),
     Volume(<<"v", "2">>, MountPath, None, None, PVC(<<"C">>))}

VolumeLists ==
    {None, L(<<>>)} \cup {L(<<v>>) : v \in VolumeValues}
        \cup {L(<<v, w>>) : v, w \in VolumeValues}

VolumesInputs ==
    {[op |-> "ensure_volumes_valid", volumes |-> volumes,
      allowed_host_prefixes |-> allowed] :
         volumes \in VolumeLists, allowed \in {None, L(<<DataDir>>)}}

ApplyEnsureVolumesValid ==
    Apply("ensure_volumes_valid",
          Outcome(ensure_volumes_valid(fin.volumes, fin.allowed_host_prefixes)))

(* merge_with_runtime_values *)

\* the mappings over the keys ks with values of vals
Dicts(ks, vals) == {D(f) : f \in UNION {[sub -> vals] : sub \in SUBSET ks}}

TemplateLeaves == {S("t"), L(<<S("t")>>)}

RuntimeLeaves == {S("m"), None, L(<<S("m")>>)}

\* the templates loaded: None (no template file) or a mapping two levels deep
MergeTemplates ==
    {None} \cup Dicts({"a", "b"},
                      TemplateLeaves \cup Dicts({"c", "d"}, {S("t")}))

RuntimeManifests ==
    Dicts({"a", "b"}, RuntimeLeaves \cup Dicts({"c"}, RuntimeLeaves))

MergeInputs ==
    {[op |-> "merge_with_runtime_values", template |-> tmpl,
      runtime_manifest |-> manifest] :
         tmpl \in MergeTemplates, manifest \in RuntimeManifests}

ApplyMergeWithRuntimeValues ==
    Apply("merge_with_runtime_values",
          Ret(merge_with_runtime_values(fin.template, fin.runtime_manifest)))

\* _build_task_template on entrypoints whose arguments hold quotes, blanks
\* and shell operators
MaxArgLen == 2

ShellChars == {"a", " ", "'", "\"", "&", "$", "\\", ";"}

EntrypointArgs == UNION {[1..n -> ShellChars] : n \in 0..MaxArgLen}

Entrypoints ==
    {<<arg>> : arg \in EntrypointArgs}
        \cup {<<<<"s", "h">>, arg>> : arg \in EntrypointArgs}
        \cup {<<arg, arg>> : arg \in EntrypointArgs}

TaskTemplateInputs ==
    {[op |-> "build_task_template", entrypoint |-> e, env |-> <<>>] :
         e \in Entrypoints}

ApplyBuildTaskTemplate ==
    Apply("build_task_template",
          Ret(build_task_template(fin.entrypoint, fin.env)))

\* "sandbox.opensandbox.io/endpoints"
EndpointsAnnotation == "sandbox.opensandbox.io/endpoints"

\* BatchSandboxProvider.get_status: [state, reason]
get_status(workload) ==
    LET status == GetOr(workload, "status", EmptyDict)
        ready == GetOr(status, "ready", I(0)).v
        allocated == GetOr(status, "allocated", I(0)).v
        annotations ==
            GetOr(GetOr(workload, "metadata", EmptyDict), "annotations",
                  EmptyDict)
        endpoints_str == GetOr(annotations, EndpointsAnnotation, None)
    IN  IF ready = 1 /\ Truthy(endpoints_str)
        THEN [state |-> "Running", reason |-> "READY_WITH_IP"]
        ELSE IF ready > 0
        THEN [state |-> "Pending", reason |-> "POD_READY_NO_IP"]
        ELSE IF allocated > 0
        THEN [state |-> "Pending", reason |-> "POD_SCHEDULED"]
        ELSE [state |-> "Pending", reason |-> "BATCHSANDBOX_PENDING"]

\* the number of pods a status counts up to
MaxReplicas == 2

PodCounts == {None} \cup {I(n) : n \in 0..MaxReplicas}

\* the status of a BatchSandbox: absent, or with each counter set or missing
WorkloadStatuses ==
    {None} \cup
    {D([k \in {f \in {"ready", "allocated"} : c[f] # None} |-> c[k]]) :
         c \in [{"ready", "allocated"} -> PodCounts]}

PodIp == <<"1", "0", ".", "0", ".", "0", ".", "1">>
OtherPodIp == <<"1", "0", ".", "0", ".", "0", ".", "2">>

\* the values of the endpoints annotation: the JSON texts "", [], ["10.0.0.1"],
\* ["10.0.0.1","10.0.0.2"], {}, "ab" and the text oops
EndpointsTexts ==
    {<<>>, <<"[", "]">>,
     <<"[", "\"">> \o PodIp \o <<"\"", "]">>,
     <<"[", "\"">> \o PodIp \o <<"\"", ",", "\"">> \o OtherPodIp \o <<"\"", "]">>,
     <<"{", "}">>, <<"\"", "a", "b", "\"">>, <<"o", "o", "p", "s">>}

\* the metadata of a BatchSandbox: without annotations, with other
\* annotations, and with each endpoints annotation
WorkloadMetadatas ==
    {D([name |-> S("b")]),
     D([name |-> S("b"), annotations |-> D([owner |-> S("x")])])}
        \cup {D([name |-> S("b"),
                 annotations |-> D(EndpointsAnnotation :> Text(text))]) :
                  text \in EndpointsTexts}

StatusWorkloads ==
    {D([k \in {"metadata"} \cup (IF st = None THEN {} ELSE {"status"}) |->
           IF k = "metadata" THEN md ELSE st]) :
         md \in WorkloadMetadatas, st \in WorkloadStatuses}

GetStatusInputs ==
    {[op |-> "get_status", workload |-> w] : w \in StatusWorkloads}

ApplyGetStatus == Apply("get_status", Ret(get_status(fin.workload)))

\* AgentSandboxProvider._pod_state_from_selector: [state, reason] or None;
\* pods are the pods list_namespaced_pod returns for the selector, list_fails
\* tells that the call raises
pod_state_from_selector(workload, pods, list_fails) ==
    LET status == GetOr(workload, "status", EmptyDict)
        selector == GetOr(status, "selector", None)
        namespace == GetOr(GetOr(workload, "metadata", EmptyDict), "namespace",
                           None)
        running == {i \in 1..Len(pods) :
                        Truthy(pods[i].status)
                            /\ pods[i].status.v["phase"] = S("Running")}
        first == CHOOSE i \in running : \A j \in running : i <= j
    IN  IF ~Truthy(selector) \/ ~Truthy(namespace) THEN None
        ELSE IF list_fails THEN None
        ELSE IF running # {}
        THEN IF Truthy(pods[first].status.v["pod_ip"])
             THEN O([state |-> "Running", reason |-> S("POD_READY")])
             ELSE O([state |-> "Pending", reason |-> S("POD_READY_NO_IP")])
        ELSE IF pods # <<>>
        THEN O([state |-> "Pending", reason |-> S("POD_PENDING")])
        ELSE None

\* AgentSandboxProvider.get_status: [state, reason]
AgentSandbox_get_status(workload, pods, list_fails) ==
    LET status == GetOr(workload, "status", EmptyDict)
        conditions == GetOr(status, "conditions", L(<<>>)).v
        ready == {i \in 1..Len(conditions) :
                      GetOr(conditions[i], "type", None) = S("Ready")}
        ready_condition == conditions[CHOOSE i \in ready : \A j \in ready : i <= j]
        pod_state == pod_state_from_selector(workload, pods, list_fails)
        cond_status == GetOr(ready_condition, "status", None)
        reason == GetOr(ready_condition, "reason", None)
    IN  IF ready = {}
        THEN IF Truthy(pod_state)
             THEN [state |-> pod_state.v["state"],
                   reason |-> pod_state.v["reason"]]
             ELSE [state |-> "Pending", reason |-> S("SANDBOX_PENDING")]
        ELSE [state |-> IF cond_status = S("True") THEN "Running"
                        ELSE IF reason = S("SandboxExpired") THEN "Terminated"
                        ELSE "Pending",
              reason |-> reason]

\* the pods a selector matches, at most
MaxPods == 2

V1Pod(phase, pod_ip) == [status |-> O([phase |-> phase, pod_ip |-> pod_ip])]

Pods ==
    {[status |-> None], V1Pod(S("Running"), Text(PodIp)),
     V1Pod(S("Running"), None), V1Pod(S("Pending"), None)}

PodLists == UNION {[1..n -> Pods] : n \in 0..MaxPods}

\* a condition of a Sandbox: its status and reason set or missing
Condition(type, status, reason) ==
    D([k \in {"type"} \cup (IF status = None THEN {} ELSE {"status"})
                 \cup (IF reason = None THEN {} ELSE {"reason"}) |->
          CASE k = "type" -> S(type) [] k = "status" -> status
            [] OTHER -> reason])

ReadyConditions ==
    {Condition("Ready", status, reason) :
         status \in {None, S("True"), S("False"), S("Unknown")},
         reason \in {None, S("SandboxExpired"), S("DependenciesNotReady")}}

ConditionLists ==
    {<<>>, <<Condition("Scheduled", S("True"), None)>>}
        \cup {<<c>> : c \in ReadyConditions}
        \cup {<<Condition("Scheduled", S("True"), None), c>> :
                  c \in ReadyConditions}

\* the Sandbox resources: conditions, and status.selector set or missing
Sandboxes ==
    {D([metadata |-> D([name |-> S("b"), namespace |-> S("default")]),
        status |-> D([k \in {"conditions"}
                             \cup (IF selector THEN {"selector"} ELSE {}) |->
                         IF k = "conditions" THEN L(conditions)
                         ELSE S("app=sandbox")])]) :
         conditions \in ConditionLists, selector \in BOOLEAN}

AgentStatusInputs ==
    {[op |-> "AgentSandbox_get_status", workload |-> w, pods |-> pods,
      list_fails |-> fails] :
         w \in Sandboxes, pods \in PodLists, fails \in BOOLEAN}

ApplyAgentSandboxGetStatus ==
    Apply("AgentSandbox_get_status",
          Ret(AgentSandbox_get_status(fin.workload, fin.pods, fin.list_fails)))

\* s.replace('Z', '+00:00')
RECURSIVE ReplaceZ(_)
ReplaceZ(s) ==
    IF s = <<>> THEN <<>>
    ELSE (IF Head(s) = "Z" THEN <<"+", "0", "0", ":", "0", "0">>
          ELSE <<Head(s)>>) \o ReplaceZ(Tail(s))

\* the exception datetime.fromisoformat raises
ValueError == [t |-> "ValueError"]

\* int() of two decimal digits, -1 when one is no digit
TwoDigitValue(a, b) ==
    IF a \in Digit /\ b \in Digit
    THEN 10 * ((CHOOSE d \in 1..10 : DigitChars[d] = a) - 1)
             + (CHOOSE d \in 1..10 : DigitChars[d] = b) - 1
    ELSE -1

\* datetime.fromisoformat on the texts of 2025-01-01 at a full hour: the
\* datetime, or ValueError
fromisoformat(s) ==
    LET hour == TwoDigitValue(s[12], s[13])
        offset == TwoDigitValue(s[21], s[22])
    IN  IF Len(s) \notin {19, 25} THEN ValueError
        ELSE IF SubSeq(s, 1, 11) # DatePrefix \/ hour \notin 0..23
                  \/ SubSeq(s, 14, 19) # <<":", "0", "0", ":", "0", "0">>
        THEN ValueError
        ELSE IF Len(s) = 19 THEN datetime(hour, None)
        ELSE IF s[20] \notin {"+", "-"} \/ offset \notin 0..23
                  \/ SubSeq(s, 23, 25) # <<":", "0", "0">>
        THEN ValueError
        ELSE datetime(hour, I(IF s[20] = "-" THEN 0 - offset ELSE offset))

\* get_expiration without the replacement of "Z"
get_expiration_NoZ(workload) ==
    LET spec == GetOr(workload, "spec", EmptyDict)
        expire_time_str == GetOr(spec, "expireTime", None)
    IN  IF ~Truthy(expire_time_str) THEN Ret(None)
        ELSE IF expire_time_str.t # "text" THEN Raise("AttributeError")
        ELSE LET parsed == fromisoformat(expire_time_str.v)
             IN  IF parsed = ValueError THEN Ret(None) ELSE Ret(parsed)

\* BatchSandboxProvider.get_expiration: returns the datetime or None; a
\* value that is no string has no replace() and raises AttributeError
get_expiration(workload) ==
    LET spec == GetOr(workload, "spec", EmptyDict)
        expire_time_str == GetOr(spec, "expireTime", None)
    IN  IF ~Truthy(expire_time_str) THEN Ret(None)
        ELSE IF expire_time_str.t # "text" THEN Raise("AttributeError")
        ELSE LET parsed == fromisoformat(ReplaceZ(expire_time_str.v))
             IN  IF parsed = ValueError THEN Ret(None) ELSE Ret(parsed)

\* the workload of id "b" after create_workload with the first expiration of
\* writes and an update_expiration with each later one, no call failing
RECURSIVE StoreWritten(_)
StoreWritten(writes) ==
    IF Len(writes) = 1
    THEN create_workload(<<>>, DefaultRequest(<<"b">>, writes[1]), None, 0).store
    ELSE update_expiration(StoreWritten(SubSeq(writes, 1, Len(writes) - 1)),
                           <<"b">>, writes[Len(writes)], 0).store

\* the expirations written to one workload, in order: at most MaxTime + 1
WriteSequences == UNION {[1..n -> Times] : n \in 1..(MaxTime + 1)}

\* workloads the provider wrote, with the datetime their last write carried
WrittenWorkloads ==
    {[workload |-> StoreWritten(writes)[<<"b">>],
      means |-> datetime(writes[Len(writes)], I(0))] :
         writes \in WriteSequences}

\* workloads written by others, with the datetime their expireTime means
\* (None: it means none)
ForeignWorkloads ==
    {[workload |-> D([metadata |-> D([name |-> S("b")])]), means |-> None],
     [workload |-> D([spec |-> D([replicas |-> I(1)])]), means |-> None],
     [workload |-> D([spec |-> D([expireTime |-> Text(<<>>)])]),
      means |-> None],
     [workload |-> D([spec |-> D([expireTime |-> Text(<<"s", "o", "o", "n">>)])]),
      means |-> None],
     [workload |-> D([spec |-> D([expireTime |-> Text(<<"Z">>)])]),
      means |-> None]}
        \cup
    {[workload |->
          D([spec |-> D([expireTime |->
              Text(DatePrefix \o TwoDigits(hour) \o <<":", "0", "0", ":", "0", "0">>
                       \o suffix.text)])]),
      means |-> datetime(hour, suffix.tzinfo)] :
         hour \in {0, 9, 23},
         suffix \in {[text |-> <<"Z">>, tzinfo |-> I(0)],
                     [text |-> <<>>, tzinfo |-> None],
                     [text |-> <<"-", "0", "8", ":", "0", "0">>,
                      tzinfo |-> I(-8)]}}
        \cup
    {[workload |->
          D([spec |-> D([expireTime |->
              Text(DatePrefix \o <<"2", "4", ":", "0", "0", ":", "0", "0", "Z">>)])]),
      means |-> None]}

GetExpirationInputs ==
    {[op |-> "get_expiration", workload |-> w.workload, means |-> w.means] :
         w \in WrittenWorkloads \cup ForeignWorkloads}

ApplyGetExpiration == Apply("get_expiration", get_expiration(fin.workload))

\* apply_egress_to_spec on pod specs that already carry sysctls
Sysctl(name, value) == D([name |-> S(name), value |-> S(value)])

ExistingSysctls ==
    {Sysctl("net.core.somaxconn", "1024"),
     Sysctl("net.ipv6.conf.all.disable_ipv6", "0"),
     Sysctl("net.ipv6.conf.lo.disable_ipv6", "0")}

\* the lists of existing sysctls, no name twice
SysctlLists ==
    {list \in UNION {[1..n -> ExistingSysctls] : n \in 0..3} :
         \A i, j \in 1..Len(list) : list[i] = list[j] => i = j}

\* pod specs: without securityContext, with one without sysctls, with
\* sysctls None, and with each list
EgressPodSpecs ==
    {D([hostname |-> S("b")]),
     D([securityContext |-> D([runAsUser |-> I(1000)])]),
     D([securityContext |-> D([sysctls |-> None])])}
        \cup {D([securityContext |-> D([runAsUser |-> I(1000),
                                        sysctls |-> L(list)])]) :
                  list \in SysctlLists}

ApplyEgressInputs ==
    {[op |-> "apply_egress_to_spec", pod_spec |-> pod_spec,
      containers |-> L(<<D([name |-> S("sandbox")])>>),
      network_policy |-> policy, egress_image |-> image] :
         pod_spec \in EgressPodSpecs, policy \in Policies,
         image \in EgressImages}

ApplyApplyEgressToSpec ==
    Apply("apply_egress_to_spec",
          Ret(apply_egress_to_spec(fin.pod_spec, fin.containers,
                                   fin.network_policy, fin.egress_image)))

\* str(n) of a non-negative int
RECURSIVE str_int(_)
str_int(n) ==
    IF n < 10 THEN <<DigitChars[n + 1]>>
    ELSE str_int(n \div 10) \o <<DigitChars[(n % 10) + 1]>>

JSONDecodeError == [t |-> "JSONDecodeError"]

\* a JSON string without escapes: Text of its characters, or JSONDecodeError
json_string(s) ==
    IF /\ Len(s) >= 2
       /\ s[1] = "\""
       /\ s[Len(s)] = "\""
       /\ \A i \in 2..(Len(s) - 1) : s[i] \notin {"\"", "\\"}
    THEN Text(SubSeq(s, 2, Len(s) - 1))
    ELSE JSONDecodeError

\* json.loads on the documents an endpoints annotation is given here: an
\* array of strings, a string, the empty object; any other text raises
json_loads(s) ==
    IF s = <<"{", "}">> THEN EmptyDict
    ELSE IF Len(s) >= 2 /\ s[1] = "[" /\ s[Len(s)] = "]"
    THEN IF Len(s) = 2 THEN L(<<>>)
         ELSE LET items == Split(SubSeq(s, 2, Len(s) - 1), ",")
                  parsed == [i \in DOMAIN items |-> json_string(items[i])]
              IN  IF \E i \in DOMAIN parsed : parsed[i] = JSONDecodeError
                  THEN JSONDecodeError
                  ELSE L(parsed)
    ELSE json_string(s)

\* BatchSandboxProvider.get_endpoint_info: Text("ip:port") or None
get_endpoint_info(workload, port) ==
    LET annotations ==
            GetOr(GetOr(workload, "metadata", EmptyDict), "annotations",
                  EmptyDict)
        endpoints_str == GetOr(annotations, EndpointsAnnotation, None)
    IN  IF ~Truthy(endpoints_str) THEN None
        ELSE LET endpoints == json_loads(endpoints_str.v)
             IN  IF endpoints = JSONDecodeError THEN None
                 ELSE IF Truthy(endpoints)
                 THEN LET pod_ip == IF endpoints.t = "list" THEN endpoints.v[1].v
                                    ELSE <<endpoints.v[1]>>
                      IN  Text(pod_ip \o <<":">> \o str_int(port))
                 ELSE None

\* the ports asked for
Ports == {80, 8080, 44772}

EndpointInfoInputs ==
    {[op |-> "get_endpoint_info", workload |-> w, port |-> p] :
         w \in StatusWorkloads, p \in Ports}

ApplyGetEndpointInfo ==
    Apply("get_endpoint_info", Ret(get_endpoint_info(fin.workload, fin.port)))

FnInputs ==
    ListInputs \cup ExpirationInputs \cup HostPathInputs \cup VolumesInputs
        \cup MergeInputs \cup TaskTemplateInputs \cup GetStatusInputs
        \cup AgentStatusInputs \cup GetExpirationInputs
        \cup ApplyEgressInputs \cup EndpointInfoInputs

InitFn ==
    /\ template = None
    /\ store = <<>>
    /\ last = NoCall
    /\ prev = NoName
    /\ RaceIdle
    /\ DockerIdle
    /\ RegistryIdle
    /\ fin \in FnInputs
    /\ fout = NotApplied

NextFn ==
    \/ ApplyList
    \/ ApplyEnsureFutureExpiration
    \/ ApplyEnsureValidHostPath
    \/ ApplyEnsureVolumesValid
    \/ ApplyMergeWithRuntimeValues
    \/ ApplyBuildTaskTemplate
    \/ ApplyGetStatus
    \/ ApplyAgentSandboxGetStatus
    \/ ApplyGetExpiration
    \/ ApplyApplyEgressToSpec
    \/ ApplyGetEndpointInfo

SpecFn == InitFn /\ [][NextFn]_vars

\* ---- the provider factory as a state machine ----

RegisterProvider(name, provider_class) ==
    LET r == register_provider(registry, name, provider_class)
    IN  /\ registry' = r.registry
        /\ rcall' = FactoryCall("register", Text(name), provider_class, None, r.result,
                                registry)
        /\ UNCHANGED <<k8sVars, dockerVars, restoreVars, fnVars>>

CreateWorkloadProvider(provider_type, k8s_config) ==
    /\ rcall' = FactoryCall("create", provider_type, None, k8s_config,
                            create_workload_provider(registry, provider_type, k8s_config),
                            registry)
    /\ UNCHANGED <<registry, k8sVars, dockerVars, restoreVars, fnVars>>

\* _PROVIDER_REGISTRY.clear(), as the isolated-registry tests do
ClearRegistry ==
    /\ registry # <<>>
    /\ registry' = <<>>
    /\ rcall' = FactoryCall("clear", None, None, None, FactoryOk, registry)
    /\ UNCHANGED <<k8sVars, dockerVars, restoreVars, fnVars>>

InitRegistry ==
    /\ template = None
    /\ store = <<>>
    /\ last = NoCall
    /\ prev = NoName
    /\ RaceIdle
    /\ DockerIdle
    /\ FnIdle
    /\ registry = DefaultRegistry
    /\ rcall = NoFactoryCall

NextRegistry ==
    \/ \E name \in ProviderNames, provider_class \in ProviderClasses :
            RegisterProvider(name, provider_class)
    \/ \E provider_type \in ProviderTypes, k8s_config \in RuntimeConfigs :
            CreateWorkloadProvider(provider_type, k8s_config)
    \/ ClearRegistry

SpecRegistry == InitRegistry /\ [][NextRegistry]_vars

\* the pairs (key, value) of a metadata mapping
Pairs(metadata) ==
    IF ~Truthy(metadata) THEN {}
    ELSE {<<metadata.v[k].key, metadata.v[k].value>> : k \in 1..Len(metadata.v)}

\* the elements of a sequence or of a list that is not given
Elements(list) ==
    IF ~Truthy(list) THEN {} ELSE {list.v[k] : k \in 1..Len(list.v)}

\* C12: list(states = S, metadata = M) returns exactly the sandboxes whose
\* state is one of S and whose metadata holds every pair of M; a sandbox that
\* lacks a requested key or holds another value for it is excluded.
C12_ListFiltering ==
    (fin.op = "list" /\ fout # NotApplied) =>
        LET all == list_sandboxes(fin.daemon, fin.pending)
            Wanted(sandbox) ==
                /\ fin.states # None => sandbox.state \in Elements(fin.states)
                /\ Pairs(fin.metadata) \subseteq Pairs(sandbox.metadata)
        IN  /\ fout.t = "ret"
            /\ {fout.v[k] : k \in 1..Len(fout.v)}
                   = {all[k] : k \in {j \in 1..Len(all) : Wanted(all[j])}}
            /\ Len(fout.v) = Cardinality({j \in 1..Len(all) : Wanted(all[j])})

\* a list with both filters given that keeps one sandbox and excludes another
\* for holding a different value for a requested key
C12_Witness ==
    /\ fin.op = "list"
    /\ fout # NotApplied
    /\ fin.states # None
    /\ fin.metadata # None
    /\ Len(fin.metadata.v) = 2
    /\ Len(fout.v) = 1
    /\ \E i \in DOMAIN fin.daemon :
           /\ fin.daemon[i].state \in Elements(fin.states)
           /\ fin.daemon[i].metadata = L(<<TeamB>>)

\* the instant a datetime denotes, as a UTC reading: a datetime without zone
\* is taken as UTC
Instant(dt) == IF dt.tzinfo = None THEN dt.wall ELSE dt.wall - dt.tzinfo.v

\* C13: ensure_future_expiration(ts) fails with INVALID_EXPIRATION exactly
\* when ts, normalized to UTC, is not strictly after the current time;
\* otherwise it returns the same instant expressed in UTC.
C13_FutureExpiration ==
    (fin.op = "ensure_future_expiration" /\ fout # NotApplied) =>
        IF Instant(fin.expires_at) <= Instant(fin.now)
        THEN fout = Raise("INVALID_EXPIRATION")
        ELSE /\ fout.t = "ret"
             /\ fout.v.tzinfo = I(0)
             /\ Instant(fout.v) = Instant(fin.expires_at)

\* a timestamp of another zone that denotes exactly the current instant is
\* rejected
C13_Witness ==
    /\ fin.op = "ensure_future_expiration"
    /\ fin.expires_at.tzinfo = I(1)
    /\ Instant(fin.expires_at) = Instant(fin.now)
    /\ fout = Raise("INVALID_EXPIRATION")

\* a host path the structural checks of ensure_valid_host_path let pass
StructurallyValid(path) == ensure_valid_host_path(path, None) = "ok"

\* a prefix without its trailing "/"
Trimmed(prefix) == RStrip(prefix, "/")

\* C14: with a non-empty allowlist a structurally valid host path is accepted
\* if and only if it equals an allowed prefix (trailing "/" removed) or
\* starts with that prefix followed by "/"; any other path is rejected with
\* HOST_PATH_NOT_ALLOWED.
C14_AllowlistBoundary ==
    (/\ fin.op = "ensure_valid_host_path"
     /\ fout # NotApplied
     /\ Truthy(fin.allowed_prefixes)
     /\ StructurallyValid(fin.path)) =>
        LET Under(prefix) ==
                \/ fin.path = Trimmed(prefix)
                \/ /\ Len(fin.path) > Len(Trimmed(prefix))
                   /\ SubSeq(fin.path, 1, Len(Trimmed(prefix)) + 1)
                          = Trimmed(prefix) \o <<"/">>
        IN  IF \E prefix \in Elements(fin.allowed_prefixes) : Under(prefix)
            THEN fout = Ret(None)
            ELSE fout = Raise("HOST_PATH_NOT_ALLOWED")

\* a path that only shares a string prefix with the allowed prefix is
\* rejected
C14_Witness ==
    /\ fin.op = "ensure_valid_host_path"
    /\ fin.allowed_prefixes = L(<<DataDir \o <<"/">>>>)
    /\ fin.path = DataDir \o <<"-", "e", "v", "i", "l">>
    /\ fout = Raise("HOST_PATH_NOT_ALLOWED")

IsDnsLabel(name) == name # <<>> /\ Len(name) <= 63 /\ DnsLabel(name)

\* a volume that passes every per-volume rule
VolumeValid(volume, allowed) ==
    /\ IsDnsLabel(volume.name)
    /\ StartsWith(volume.mount_path, <<"/">>)
    /\ ensure_valid_sub_path(volume.sub_path) = "ok"
    /\ (volume.host = None) # (volume.pvc = None)
    /\ volume.host # None =>
           ensure_valid_host_path(volume.host.v["path"], allowed) = "ok"
    /\ volume.pvc # None =>
           /\ volume.pvc.v["claim_name"] # <<>>
           /\ Len(volume.pvc.v["claim_name"]) <= 253
           /\ DnsLabel(volume.pvc.v["claim_name"])

\* C16: ensure_volumes_valid accepts a volume list if and only if the names
\* are pairwise distinct and every volume is valid (DNS-label name, absolute
\* mount path, valid subPath, exactly one backend, valid backend field); a
\* list with two volumes of the same name fails with DUPLICATE_VOLUME_NAME;
\* a null or empty list is accepted.
C16_VolumesValid ==
    (fin.op = "ensure_volumes_valid" /\ fout # NotApplied) =>
        LET vs == IF Truthy(fin.volumes) THEN fin.volumes.v ELSE <<>>
            distinct == \A i, j \in 1..Len(vs) :
                            vs[i].name = vs[j].name => i = j
        IN  /\ fout = Ret(None) <=>
                   /\ distinct
                   /\ \A i \in 1..Len(vs) :
                          VolumeValid(vs[i], fin.allowed_host_prefixes)
            /\ ~distinct => fout = Raise("DUPLICATE_VOLUME_NAME")

Missing == [t |-> "missing", v |-> 0]

\* the value a mapping holds at a path of keys, or Missing
RECURSIVE At(_, _)
At(value, path) ==
    IF path = <<>> THEN value
    ELSE IF value.t # "dict" THEN Missing
    ELSE IF Head(path) \notin DOMAIN value.v THEN Missing
    ELSE At(value.v[Head(path)], Tail(path))

\* the leaves of a mapping as pairs <<path, value>>; every value that is not
\* a mapping is a leaf
RECURSIVE Leaves(_)
Leaves(value) ==
    IF value.t # "dict" THEN {<<<<>>, value>>}
    ELSE UNION {{<<<<k>> \o leaf[1], leaf[2]>> : leaf \in Leaves(value.v[k])} :
                    k \in DOMAIN value.v}

LeavesOf(value) == IF value = None THEN {} ELSE Leaves(value)

\* C17 as claimed: the merged manifest has M's value at every leaf path of
\* M, and T's value at every leaf path present only in T.
C17_MergeRoundTrip ==
    (fin.op = "merge_with_runtime_values" /\ fout # NotApplied) =>
        /\ \A leaf \in Leaves(fin.runtime_manifest) :
               At(fout.v, leaf[1]) = leaf[2]
        /\ \A leaf \in LeavesOf(fin.template) :
               (\A other \in Leaves(fin.runtime_manifest) :
                    other[1] # leaf[1]) =>
                   At(fout.v, leaf[1]) = leaf[2]

\* the path or one of its proper prefixes holds, in the runtime manifest, a
\* value that replaces what the template has there: at the path any value
\* but null, at a prefix any value but null and a mapping
Replaced(manifest, path) ==
    \/ At(manifest, path) \notin {Missing, None}
    \/ \E n \in 0..(Len(path) - 1) :
           /\ At(manifest, SubSeq(path, 1, n)) \notin {Missing, None}
           /\ At(manifest, SubSeq(path, 1, n)).t # "dict"

\* C17, amended: with a template loaded the merged manifest has M's value at
\* every leaf path of M whose value is not null, and T's value at every leaf
\* path of T that M does not replace; a null of M never replaces a template
\* value.  Without a template the merged manifest is M.
C17_MergeKeepsLeaves ==
    (fin.op = "merge_with_runtime_values" /\ fout # NotApplied) =>
        IF ~Truthy(fin.template) THEN fout.v = fin.runtime_manifest
        ELSE /\ \A leaf \in Leaves(fin.runtime_manifest) :
                    leaf[2] # None => At(fout.v, leaf[1]) = leaf[2]
             /\ \A leaf \in Leaves(fin.template) :
                    ~Replaced(fin.runtime_manifest, leaf[1]) =>
                        At(fout.v, leaf[1]) = leaf[2]

\* a merge that recursed into a mapping both sides have: a template-only
\* leaf next to a leaf the runtime manifest overrides and a null it gives
C17_Witness ==
    /\ fin.op = "merge_with_runtime_values"
    /\ fout # NotApplied
    /\ Truthy(fin.template)
    /\ At(fin.template, <<"a", "d">>) = S("t")
    /\ At(fin.runtime_manifest, <<"a", "c">>) = S("m")
    /\ At(fin.runtime_manifest, <<"b">>) = None
    /\ At(fin.template, <<"b">>) = S("t")
    /\ At(fout.v, <<"a", "d">>) = S("t")
    /\ At(fout.v, <<"b">>) = S("t")

----------------------------------------------------------------------------
(* The template manager with object identity.  A dict or list carries o, the *)
(* object it is: "template" for an object of the stored template,            *)
(* "manifest" for one of the runtime manifest passed in, "fresh" for one a    *)
(* call created.                                                              *)

\* the value with every dict and list of it being an object of owner
RECURSIVE Owned(_, _)
Owned(value, owner) ==
    IF value.t = "dict"
    THEN [t |-> "dict", o |-> owner,
          v |-> [k \in DOMAIN value.v |-> Owned(value.v[k], owner)]]
    ELSE IF value.t = "list"
    THEN [t |-> "list", o |-> owner,
          v |-> [k \in 1..Len(value.v) |-> Owned(value.v[k], owner)]]
    ELSE value

\* the value without the identities of its objects
RECURSIVE Plain(_)
Plain(value) ==
    IF value.t = "dict"
    THEN D([k \in DOMAIN value.v |-> Plain(value.v[k])])
    ELSE IF value.t = "list"
    THEN L([k \in 1..Len(value.v) |-> Plain(value.v[k])])
    ELSE value

\* _deep_copy: new dicts and lists all the way down
deep_copy(obj) == Owned(Plain(obj), "fresh")

\* _deep_merge: result is a new dict (base.copy()) holding base's values
RECURSIVE deep_merge_refs(_, _)
deep_merge_refs(base, override) ==
    LET given == {k \in DOMAIN override.v : override.v[k].t # "none"}
    IN  [t |-> "dict", o |-> "fresh",
         v |-> [k \in DOMAIN base.v \cup given |->
                  IF k \notin given THEN base.v[k]
                  ELSE IF k \notin DOMAIN base.v THEN deep_copy(override.v[k])
                  ELSE IF base.v[k].t = "dict" /\ override.v[k].t = "dict"
                  THEN deep_merge_refs(base.v[k], override.v[k])
                  ELSE deep_copy(override.v[k])]]

get_base_template_refs_NoCopy(tmpl) ==
    IF Truthy(tmpl) THEN Owned(tmpl, "template") ELSE Owned(EmptyDict, "fresh")

\* get_base_template; tmpl is self._template
get_base_template_refs(tmpl) ==
    IF Truthy(tmpl) THEN deep_copy(Owned(tmpl, "template"))
    ELSE Owned(EmptyDict, "fresh")

\* merge_with_runtime_values
merge_with_runtime_values_refs(tmpl, runtime_manifest) ==
    LET base == get_base_template_refs(tmpl)
    IN  IF ~Truthy(base) THEN runtime_manifest
        ELSE deep_merge_refs(base, runtime_manifest)

\* the paths of the dicts and lists of a value
RECURSIVE ObjectPaths(_)
ObjectPaths(value) ==
    IF value.t \notin {"dict", "list"} THEN {}
    ELSE {<<>>} \cup
         UNION {{<<k>> \o path : path \in ObjectPaths(value.v[k])} :
                    k \in DOMAIN value.v}

\* the owners of the dicts and lists of a value
Owners(value) == {At(value, path).o : path \in ObjectPaths(value)}

\* the object at a path written to: a dict gets the key "z", a list one more
\* element
RECURSIVE Written(_, _, _)
Written(value, path, x) ==
    IF path # <<>>
    THEN [value EXCEPT !.v = [k \in DOMAIN value.v |->
                                 IF k = Head(path)
                                 THEN Written(value.v[k], Tail(path), x)
                                 ELSE value.v[k]]]
    ELSE IF value.t = "dict"
    THEN [value EXCEPT !.v = [k \in DOMAIN value.v \cup {"z"} |->
                                 IF k = "z" THEN x ELSE value.v[k]]]
    ELSE [value EXCEPT !.v = Append(value.v, x)]

\* a caller writes into objects of at most MaxWrites + 1 entries
MaxWrites == 1

\* what a caller writes into an object
Marks == {S("y"), S("z")}

\* a value holds what a caller wrote
RECURSIVE Marked(_)
Marked(value) ==
    /\ value.t \in {"dict", "list"}
    /\ \/ value.t = "dict" /\ "z" \in DOMAIN value.v
       \/ value.t = "list" /\ \E k \in 1..Len(value.v) : value.v[k] \in Marks
       \/ \E k \in DOMAIN value.v : Marked(value.v[k])

LoadedTemplates ==
    {None, D([a |-> D([c |-> S("t")]), b |-> L(<<S("t")>>)])}

PassedManifests ==
    {D([a |-> D([c |-> S("m")])]), D([b |-> L(<<S("m")>>), d |-> S("m")])}

GetBaseTemplate ==
    /\ fin' = [op |-> "get_base_template"]
    /\ fout' = Ret(get_base_template_refs(template))
    /\ UNCHANGED <<k8sVars, dockerVars, restoreVars, registryVars>>

MergeWithRuntimeValues(manifest) ==
    /\ fin' = [op |-> "merge_with_runtime_values",
               runtime_manifest |-> Owned(manifest, "manifest")]
    /\ fout' = Ret(merge_with_runtime_values_refs(
                       template, Owned(manifest, "manifest")))
    /\ UNCHANGED <<k8sVars, dockerVars, restoreVars, registryVars>>

\* the caller writes x into the object at path of the value returned last;
\* every holder of that object sees the write
Mutate(path, x) ==
    /\ fout # NotApplied
    /\ path \in ObjectPaths(fout.v)
    /\ Cardinality(DOMAIN At(fout.v, path).v) < MaxWrites + 2
    /\ fout' = Ret(Written(fout.v, path, x))
    /\ template' = IF At(fout.v, path).o = "template"
                   THEN Plain(Written(Owned(template, "template"), path, x))
                   ELSE template
    /\ fin' = IF At(fout.v, path).o = "manifest"
              THEN [fin EXCEPT !.runtime_manifest =
                                   Written(fin.runtime_manifest, path, x)]
              ELSE fin
    /\ UNCHANGED <<provVars, raceVars, dockerVars, restoreVars, registryVars>>

InitTemplate ==
    /\ template \in LoadedTemplates
    /\ store = <<>>
    /\ last = NoCall
    /\ prev = NoName
    /\ RaceIdle
    /\ DockerIdle
    /\ FnIdle
    /\ RegistryIdle

NextTemplate ==
    \/ GetBaseTemplate
    \/ \E manifest \in PassedManifests : MergeWithRuntimeValues(manifest)
    \/ \E path \in {<<>>, <<"a">>, <<"b">>}, x \in Marks : Mutate(path, x)

SpecTemplate == InitTemplate /\ [][NextTemplate]_vars

\* C18 as claimed: whatever is called and however the returned values are
\* written to, the stored template is unchanged, and the value returned by
\* merge shares no dict or list with the stored template or with the runtime
\* manifest passed in, with or without a template loaded.
C18_FreshCopy ==
    /\ ~Marked(template)
    /\ (fin.op = "merge_with_runtime_values" /\ fout # NotApplied) =>
           Owners(fout.v) \subseteq {"fresh"}

\* C18, amended: the stored template is never changed through a returned
\* value; get_base_template returns a fresh copy; with a template loaded the
\* value returned by merge shares nothing with the stored template or the
\* runtime manifest; without a template merge returns the runtime manifest
\* object itself.
C18_FreshCopyWithTemplate ==
    /\ ~Marked(template)
    /\ (fin.op = "get_base_template" /\ fout # NotApplied) =>
           Owners(fout.v) \subseteq {"fresh"}
    /\ (fin.op = "merge_with_runtime_values" /\ fout # NotApplied) =>
           IF Truthy(template)
           THEN /\ Owners(fout.v) \subseteq {"fresh"}
                /\ ~Marked(fin.runtime_manifest)
           ELSE fout.v = fin.runtime_manifest

\* a value returned by merge with a template loaded, written to in a nested
\* object that came from the template's side
C18_Witness ==
    /\ fin.op = "merge_with_runtime_values"
    /\ fout # NotApplied
    /\ Truthy(template)
    /\ At(fout.v, <<"b">>) # Missing
    /\ Marked(At(fout.v, <<"b">>))
    /\ Marked(At(fout.v, <<"a">>))

----------------------------------------------------------------------------
(* Claims on the lists of a template-mode manifest (SpecManifest)            *)

\* the request asks for a pool: extensions.poolRef is present and non-empty
PoolRefGiven(r) ==
    /\ r.extensions.t = "dict"
    /\ Has(r.extensions, "poolRef")
    /\ r.extensions.v["poolRef"] \notin {None, S("")}

\* the PodSpec of a manifest
PodSpecOf(w) == w.v["spec"].v["template"].v["spec"]

\* the entry of a list of named entries at each position's name
NameAt(list, i) == GetOr(list[i], "name", None)

\* the positions of extras whose name is neither in list nor at an earlier
\* position of extras
NewNames(list, extras) ==
    {i \in 1..Len(extras) :
         /\ \A j \in 1..Len(list) : NameAt(list, j) # NameAt(extras, i)
         /\ \A j \in 1..(i - 1) : NameAt(extras, j) # NameAt(extras, i)}

\* list followed by the entries of extras at the positions of NewNames, in
\* their order
UnionByName(list, extras) ==
    LET new == NewNames(list, extras)
        nth(k) == CHOOSE i \in new : Cardinality({j \in new : j <= i}) = k
    IN  list \o [k \in 1..Cardinality(new) |-> extras[nth(k)]]

\* the container of a template its mounts are taken from: the one called
\* "sandbox", else the first
TemplateMountSource(containers) ==
    IF \E i \in 1..Len(containers) : NameAt(containers, i) = S("sandbox")
    THEN containers[CHOOSE i \in 1..Len(containers) :
                        /\ NameAt(containers, i) = S("sandbox")
                        /\ \A j \in 1..(i - 1) :
                               NameAt(containers, j) # S("sandbox")]
    ELSE containers[1]

NoNameTwice(list) ==
    \A i, j \in 1..Len(list) : NameAt(list, i) = NameAt(list, j) => i = j

\* C19: in template mode with a template loaded, the pod volumes of the
\* manifest are the runtime-generated volumes followed by every template
\* volume whose name is not already present, the main container's
\* volumeMounts are the runtime mounts followed by every mount of the
\* template's "sandbox" container (else its first) whose name is not already
\* present, no name occurs twice, every runtime entry stays as generated, and
\* every other list (initContainers, the rest of containers, sysctls) is the
\* runtime list.
C19_UnionMergeByName ==
    (CreatedOk /\ ~PoolRefGiven(last.arg) /\ template # None) =>
        LET pod == PodSpecOf(store[last.name])
            runtime == PodSpecOf(template_manifest(last.arg, None))
            from == PodSpecOf(template)
            volumes == pod.v["volumes"].v
            containers == pod.v["containers"].v
            mounts == containers[1].v["volumeMounts"].v
            runtime_volumes == runtime.v["volumes"].v
            runtime_containers == runtime.v["containers"].v
            runtime_mounts == runtime_containers[1].v["volumeMounts"].v
            template_volumes == ListOr(from, "volumes").v
            template_mounts ==
                IF ListOr(from, "containers").v = <<>> THEN <<>>
                ELSE ListOr(TemplateMountSource(from.v["containers"].v),
                            "volumeMounts").v
        IN  /\ volumes = UnionByName(runtime_volumes, template_volumes)
            /\ mounts = UnionByName(runtime_mounts, template_mounts)
            /\ NoNameTwice(volumes) /\ NoNameTwice(mounts)
            /\ SubSeq(volumes, 1, Len(runtime_volumes)) = runtime_volumes
            /\ SubSeq(mounts, 1, Len(runtime_mounts)) = runtime_mounts
            /\ pod.v["initContainers"] = runtime.v["initContainers"]
            /\ Len(containers) = Len(runtime_containers)
            /\ \A i \in 1..Len(containers) :
                   Put(containers[i], "volumeMounts", L(<<>>))
                       = Put(runtime_containers[i], "volumeMounts", L(<<>>))
            /\ \A i \in 2..Len(containers) :
                   containers[i] = runtime_containers[i]
            /\ Has(runtime, "securityContext") =>
                   pod.v["securityContext"].v["sysctls"]
                       = runtime.v["securityContext"].v["sysctls"]

\* C19 witness: a manifest created from the template whose volumes and mounts
\* repeat a name and collide with the runtime entries: one template volume
\* and one template mount were appended, the others dropped
C19_Witness ==
    /\ CreatedOk /\ ~PoolRefGiven(last.arg)
    /\ template = TemplateWithCollisions
    /\ Len(PodSpecOf(store[last.name]).v["volumes"].v) = 2
    /\ Len(PodSpecOf(store[last.name]).v["containers"].v[1].v["volumeMounts"].v)
           = 2

C20_WitnessEmptyPoolRef ==
    /\ CreatedOk
    /\ last.arg.extensions = D([poolRef |-> S("")])
    /\ Has(store[last.name].v["spec"], "template")

----------------------------------------------------------------------------
(* Claims on the pool-mode task command (SpecFn)                             *)

\* the characters that end a word of a shell command and stand for
\* themselves
ShOperators == {"&", ";", "|", "<", ">", "(", ")", "\n"}

\* the characters an unquoted word is expanded at (the backquote is left
\* out: no input holds one)
ShExpanding == {"$", "*", "?", "[", "~", "#", "{"}

\* the words of a command line as /bin/sh splits it; an operator is the word
\* <<"<operator>", c>>, an expansion leaves "<expansion>" in its word, a quote
\* left open the word <<"<unterminated>">>
RECURSIVE ShWords(_, _, _, _, _)
ShWords(s, cur, inword, mode, out) ==
    LET flush == IF inword THEN Append(out, cur) ELSE out
    IN  IF s = <<>>
        THEN IF mode = "plain" THEN flush
             ELSE Append(flush, <<"<unterminated>">>)
        ELSE LET c == Head(s)
                 rest == Tail(s)
             IN  CASE mode = "single" ->
                          IF c = "'" THEN ShWords(rest, cur, TRUE, "plain", out)
                          ELSE ShWords(rest, Append(cur, c), TRUE, "single", out)
                   [] mode = "double" ->
                          IF c = "\"" THEN ShWords(rest, cur, TRUE, "plain", out)
                          ELSE IF c = "\\" /\ rest # <<>>
                                    /\ Head(rest) \in {"$", "\"", "\\"}
                          THEN ShWords(Tail(rest), Append(cur, Head(rest)),
                                       TRUE, "double", out)
                          ELSE IF c = "$"
                          THEN ShWords(rest, Append(cur, "<expansion>"), TRUE,
                                       "double", out)
                          ELSE ShWords(rest, Append(cur, c), TRUE, "double", out)
                   [] OTHER ->
                          IF c \in {" ", "\t"}
                          THEN ShWords(rest, <<>>, FALSE, "plain", flush)
                          ELSE IF c \in ShOperators
                          THEN ShWords(rest, <<>>, FALSE, "plain",
                                       Append(flush, <<"<operator>", c>>))
                          ELSE IF c = "'"
                          THEN ShWords(rest, cur, TRUE, "single", out)
                          ELSE IF c = "\""
                          THEN ShWords(rest, cur, TRUE, "double", out)
                          ELSE IF c = "\\" /\ rest # <<>>
                          THEN ShWords(Tail(rest), Append(cur, Head(rest)),
                                       TRUE, "plain", out)
                          ELSE IF c \in ShExpanding
                          THEN ShWords(rest, Append(cur, "<expansion>"), TRUE,
                                       "plain", out)
                          ELSE ShWords(rest, Append(cur, c), TRUE, "plain", out)

\* C21: the task command is ["/bin/sh", "-c", S]; S starts with the path of
\* bootstrap.sh (one word, of plain characters) and a space and ends with
\* " &", and /bin/sh splits what follows that word into exactly the arguments
\* of the entrypoint in their order, then the operator "&": no argument adds
\* a word, an operator or an expansion.
C21_PoolShellQuoting ==
    (fin.op = "build_task_template" /\ fout # NotApplied) =>
        LET command == fout.v.v["spec"].v["process"].v["command"].v
            line == command[3].v
            start == BootstrapPath \o <<" ">>
        IN  /\ Len(command) = 3
            /\ command[1] = S("/bin/sh")
            /\ command[2] = S("-c")
            /\ SubSeq(line, 1, Len(start)) = start
            /\ SubSeq(line, Len(line) - 1, Len(line)) = <<" ", "&">>
            /\ ShWords(SubSeq(line, Len(start) + 1, Len(line)), <<>>, FALSE,
                       "plain", <<>>)
                   = fin.entrypoint \o << <<"<operator>", "&">> >>

\* C21 witness: an argument holding a single quote and an operator came back
\* as one word
C21_Witness ==
    /\ fin.op = "build_task_template"
    /\ fout # NotApplied
    /\ fin.entrypoint = << <<"s", "h">>, <<"'", ";">> >>
    /\ Len(fout.v.v["spec"].v["process"].v["command"].v[3].v)
           > Len(BootstrapPath) + 9

----------------------------------------------------------------------------
(* Claims on the status of a BatchSandbox (SpecFn)                           *)

\* status.ready and status.allocated, a missing field counting as 0
ReadyOf(w) == GetOr(GetOr(w, "status", EmptyDict), "ready", I(0)).v
AllocatedOf(w) == GetOr(GetOr(w, "status", EmptyDict), "allocated", I(0)).v

\* the endpoints annotation is present, with a value that is not empty
EndpointsPresent(w) ==
    /\ Has(w.v["metadata"], "annotations")
    /\ Has(w.v["metadata"].v["annotations"], EndpointsAnnotation)
    /\ w.v["metadata"].v["annotations"].v[EndpointsAnnotation] # Text(<<>>)

\* C22: get_status returns Running when ready = 1 and endpoints are present;
\* Pending/POD_READY_NO_IP when ready > 0 and there is no endpoint; otherwise
\* Pending/POD_SCHEDULED when allocated > 0; otherwise
\* Pending/BATCHSANDBOX_PENDING.
C22_GetStatus ==
    (fin.op = "get_status" /\ fout # NotApplied) =>
        LET w == fin.workload
        IN  fout.v =
                IF ReadyOf(w) = 1 /\ EndpointsPresent(w)
                THEN [state |-> "Running", reason |-> "READY_WITH_IP"]
                ELSE IF ReadyOf(w) > 0 /\ ~EndpointsPresent(w)
                THEN [state |-> "Pending", reason |-> "POD_READY_NO_IP"]
                ELSE IF AllocatedOf(w) > 0
                THEN [state |-> "Pending", reason |-> "POD_SCHEDULED"]
                ELSE [state |-> "Pending", reason |-> "BATCHSANDBOX_PENDING"]

\* the Ready condition of a Sandbox, None when it has none
ReadyCondition(w) ==
    LET conditions == w.v["status"].v["conditions"].v
    IN  IF \E i \in 1..Len(conditions) : conditions[i].v["type"] = S("Ready")
        THEN conditions[CHOOSE i \in 1..Len(conditions) :
                            /\ conditions[i].v["type"] = S("Ready")
                            /\ \A j \in 1..(i - 1) :
                                   conditions[j].v["type"] # S("Ready")]
        ELSE None

\* a pod matched by status.selector is in phase Running with a pod IP
RunningPodWithIp(w, pods, list_fails) ==
    /\ Has(w.v["status"], "selector")
    /\ ~list_fails
    /\ \E i \in 1..Len(pods) :
           /\ pods[i].status # None
           /\ pods[i].status.v["phase"] = S("Running")
           /\ pods[i].status.v["pod_ip"] # None

\* C23: the Sandbox get_status returns Running iff the Ready condition has
\* status True, Terminated iff it has status False with reason
\* SandboxExpired, Pending for every other Ready condition; without a Ready
\* condition it returns Running iff a pod matched by status.selector is in
\* phase Running with a pod IP, else Pending.
C23_SandboxGetStatus ==
    (fin.op = "AgentSandbox_get_status" /\ fout # NotApplied) =>
        LET c == ReadyCondition(fin.workload)
        IN  fout.v.state =
                IF c # None
                THEN IF GetOr(c, "status", None) = S("True") THEN "Running"
                     ELSE IF /\ GetOr(c, "status", None) = S("False")
                             /\ GetOr(c, "reason", None) = S("SandboxExpired")
                     THEN "Terminated"
                     ELSE "Pending"
                ELSE IF RunningPodWithIp(fin.workload, fin.pods, fin.list_fails)
                THEN "Running"
                ELSE "Pending"

----------------------------------------------------------------------------
(* Claims on the capabilities of the containers (SpecManifest)               *)

\* the capabilities a container of a pod spec adds, and those it drops
CapabilitiesOf(c, k) ==
    LET ctx == GetOr(c, "securityContext", EmptyDict)
        caps == GetOr(ctx, "capabilities", EmptyDict)
    IN  Elements(GetOr(caps, k, L(<<>>)))

\* C24: in the pod spec create_workload produces with a network policy and
\* an egress image, the egress sidecar adds NET_ADMIN, no other container
\* (init containers included) adds it, and the main container drops it; in a
\* pod spec produced without a network policy the main container has no
\* securityContext.
C24_NetAdminSeparation ==
    (CreatedOk /\ ~PoolRefGiven(last.arg)) =>
        LET r == last.arg
            pod == PodSpecOf(store[last.name])
            containers == pod.v["containers"].v
            all == containers \o pod.v["initContainers"].v
            main == containers[1]
        IN  /\ (r.network_policy # None /\ Truthy(r.egress_image)) =>
                   /\ \E i \in 1..Len(all) : all[i].v["name"] = S("egress")
                   /\ \A i \in 1..Len(all) :
                          S("NET_ADMIN") \in CapabilitiesOf(all[i], "add")
                              <=> all[i].v["name"] = S("egress")
                   /\ main.v["name"] = S("sandbox")
                   /\ S("NET_ADMIN") \in CapabilitiesOf(main, "drop")
            /\ r.network_policy = None => ~Has(main, "securityContext")

\* C24 witness: a pod spec with the sidecar, produced by a provider whose
\* template lists a container called "egress" of its own
C24_Witness ==
    /\ CreatedOk /\ ~PoolRefGiven(last.arg)
    /\ template = TemplateWithEgress
    /\ last.arg.network_policy # None /\ Truthy(last.arg.egress_image)
    /\ Len(PodSpecOf(store[last.name]).v["containers"].v) = 2

----------------------------------------------------------------------------
(* Claims on the stored expiration (SpecFn)                                  *)

----------------------------------------------------------------------------
(* Claims on the sysctls of the pod (SpecFn)                                 *)

Ipv6Sysctls ==
    {S("net.ipv6.conf.all.disable_ipv6"),
     S("net.ipv6.conf.default.disable_ipv6"),
     S("net.ipv6.conf.lo.disable_ipv6")}

\* the sysctls of a pod spec, none when it has no securityContext, no
\* sysctls or sysctls None
SysctlsOf(pod_spec) ==
    ListOr(GetOr(pod_spec, "securityContext", EmptyDict), "sysctls").v

\* C26: after apply_egress_to_spec with a policy and an image the pod's
\* sysctls hold each of net.ipv6.conf.{all,default,lo}.disable_ipv6 with
\* value "1", whatever value the name had before; every sysctl of another
\* name is still there with its value; no name occurs twice.
C26_SysctlMerge ==
    (/\ fin.op = "apply_egress_to_spec"
     /\ fout # NotApplied
     /\ Truthy(fin.network_policy)
     /\ Truthy(fin.egress_image)) =>
        LET before == SysctlsOf(fin.pod_spec)
            after == SysctlsOf(fout.v.pod_spec)
        IN  /\ \A name \in Ipv6Sysctls :
                   \E i \in 1..Len(after) :
                       after[i] = D([name |-> name, value |-> S("1")])
            /\ \A i \in 1..Len(before) :
                   before[i].v["name"] \notin Ipv6Sysctls =>
                       \E j \in 1..Len(after) : after[j] = before[i]
            /\ NoNameTwice(after)
            /\ Len(after) = 3 + Cardinality({i \in 1..Len(before) :
                                   before[i].v["name"] \notin Ipv6Sysctls})

\* C26 witness: a pod spec that had net.ipv6.conf.all.disable_ipv6 = 0 and
\* another sysctl came out with four sysctls
C26_Witness ==
    /\ fin.op = "apply_egress_to_spec"
    /\ fout # NotApplied
    /\ Truthy(fin.network_policy) /\ Truthy(fin.egress_image)
    /\ SysctlsOf(fin.pod_spec)
           = <<Sysctl("net.ipv6.conf.all.disable_ipv6", "0"),
               Sysctl("net.core.somaxconn", "1024")>>
    /\ Len(SysctlsOf(fout.v.pod_spec)) = 4

----------------------------------------------------------------------------
(* Claims on the structure of a host path (SpecFn)                           *)

\* the segments of a path: its parts between "/"
Segments(path) == Elements(L(Split(path, "/")))

\* C27: without an allowlist ensure_valid_host_path accepts a path if and
\* only if it is non-empty, starts with "/", contains no "//", has no
\* trailing "/" unless it is exactly "/", and has no segment equal to "..";
\* every path it rejects is reported with INVALID_HOST_PATH.
C27_HostPathStructure ==
    (/\ fin.op = "ensure_valid_host_path"
     /\ fout # NotApplied
     /\ fin.allowed_prefixes = None) =>
        LET path == fin.path
            wellformed ==
                /\ path # <<>>
                /\ path[1] = "/"
                /\ ~Contains(path, <<"/", "/">>)
                /\ path[Len(path)] = "/" => path = <<"/">>
                /\ <<".", ".">> \notin Segments(path)
        IN  IF wellformed THEN fout = Ret(None)
            ELSE fout = Raise("INVALID_HOST_PATH")

\* ---- C28: the provider registry ----

IsLowercase(s) == \A i \in DOMAIN s : \A j \in DOMAIN UpperLetters : s[i] # UpperLetters[j]

\* the type a create call resolves: its argument, or the first registered key
\* when the argument is None
RequestedType(call) == IF call.name = None THEN call.before[1].key ELSE call.name.v

\* C28: every registry key is lowercase. create_workload_provider(t) returns
\* an instance of the class registered under lowercase(t), whatever the letter
\* case of t, and raises ValueError exactly when lowercase(t) is not
\* registered; with t = None it uses the first registered provider and raises
\* ValueError on an empty registry. register_provider with a class that is no
\* WorkloadProvider raises and leaves the registry unchanged; with a
\* WorkloadProvider it puts the class under lowercase(name) and leaves the
\* other keys alone.
C28_ProviderRegistry ==
    /\ \A i \in DOMAIN registry : IsLowercase(registry[i].key)
    /\ rcall.op = "register" =>
        IF rcall.class.is_provider
        THEN /\ rcall.result = FactoryOk
             /\ lower(rcall.name.v) \in RegistryKeys(registry)
             /\ RegistryGet(registry, lower(rcall.name.v)) = rcall.class
             /\ \A i \in DOMAIN rcall.before :
                    rcall.before[i].key # lower(rcall.name.v) => registry[i] = rcall.before[i]
        ELSE /\ rcall.result.t = "raise"
             /\ registry = rcall.before
    /\ rcall.op = "create" =>
        IF rcall.name = None /\ rcall.before = <<>>
        THEN rcall.result = FactoryRaise("ValueError")
        ELSE IF lower(RequestedType(rcall)) \notin RegistryKeys(rcall.before)
        THEN rcall.result = FactoryRaise("ValueError")
        ELSE /\ rcall.result.t = "instance"
             /\ rcall.result.class = RegistryGet(rcall.before, lower(RequestedType(rcall)))

\* ---- C29: a deleted workload is gone ----

\* C29: after delete_workload(i) has returned successfully, get_workload(i)
\* returns None, whatever the backend held before the delete, a resource
\* named i next to a legacy resource named "sandbox-" + i included.
C29_DeleteThenGet ==
    (last.op = "delete" /\ last.result = "ok") =>
        get_workload(store, last.id, 0).kind = "none"

\* ---- C30: status and endpoint agree ----

\* an address followed by ":" and the port in decimal
IsIpPort(text, port) ==
    LET tail == <<":">> \o str_int(port)
        n == Len(text) - Len(tail)
    IN  /\ n > 0
        /\ SubSeq(text, n + 1, Len(text)) = tail
        /\ \A i \in 1..n : text[i] \in {DigitChars[d] : d \in DOMAIN DigitChars} \cup {"."}

\* C30: whenever get_status reports Running for a workload, get_endpoint_info
\* on the same workload returns an "ip:port" string and not None, for every
\* port; it returns None only for workloads whose status is not Running.
C30_StatusEndpointConsistency ==
    (fin.op = "get_endpoint_info" /\ fout # NotApplied) =>
        (get_status(fin.workload).state = "Running" =>
            /\ fout.v # None
            /\ IsIpPort(fout.v.v, fin.port))

============================================================================
